---- MODULE Spec2Model ----
(***************************************************************************)
(* OBLIVION LSM storage engine: the write path (WAL append, MemTable       *)
(* insert, flush), the read path (MemTable lookup and scan), WAL recovery  *)
(* on open, and process crashes, modelled at the level of the bytes of the *)
(* WAL file.                                                               *)
(***************************************************************************)
EXTENDS Integers, Sequences, FiniteSets, TLC

\* ------------------------------------------------------------------ bounds
\* memtable_max_size is drawn from 0 .. MaxMemSize (Config accepts any usize).
MaxMemSize == 3
\* Number of put / delete calls in a behaviour, failed ones included.
MaxOps == 3
\* Number of calls in a behaviour in which an I/O step fails.
MaxFaults == 1
\* Number of process crashes in a behaviour.
MaxCrashes == 2
\* Number of records, well formed or not, in a log file given to recover.
MaxRecords == 3
\* Number of threads that share one ConcurrentOblivion, one call each.
NumThreads == 3
\* A BloomFilter has 0 .. MaxBits bits and receives up to MaxInserts inserts.
MaxBits == 9
MaxInserts == 2
\* The modulus of the wrapping 64-bit arithmetic on hash values, scaled down.
HashSpace == 16
\* Number of input tables of one call of compact_sstables.
MaxTables == 3
\* Number of SStableInfo values given to select_compaction.
MaxInfos == 3

\* Keys and values are byte strings (Vec<u8>). Two keys and two values, one of
\* them empty, give entries of 1 and 2 bytes, so that every threshold of
\* MemSizes is crossed by some calls and not by others.
Keys == {<<1>>, <<2>>}
Values == {<< >>, <<1>>}
MemSizes == 0..MaxMemSize

\* --------------------------------------------------------- Option<Value>
\* Option<Value>: None is <<>>, Some(v) is <<v>>.
None == <<>>
Some(v) == <<v>>
IsSome(o) == Len(o) = 1
Unwrap(o) == o[1]

\* ------------------------------------------------------------ bytes, CRC
\* x ^ y on 4-bit values, as a table (row x + 1, column y + 1).
XorNibble ==
  <<
    <<0, 1, 2, 3, 4, 5, 6, 7, 8, 9, 10, 11, 12, 13, 14, 15>>,
    <<1, 0, 3, 2, 5, 4, 7, 6, 9, 8, 11, 10, 13, 12, 15, 14>>,
    <<2, 3, 0, 1, 6, 7, 4, 5, 10, 11, 8, 9, 14, 15, 12, 13>>,
    <<3, 2, 1, 0, 7, 6, 5, 4, 11, 10, 9, 8, 15, 14, 13, 12>>,
    <<4, 5, 6, 7, 0, 1, 2, 3, 12, 13, 14, 15, 8, 9, 10, 11>>,
    <<5, 4, 7, 6, 1, 0, 3, 2, 13, 12, 15, 14, 9, 8, 11, 10>>,
    <<6, 7, 4, 5, 2, 3, 0, 1, 14, 15, 12, 13, 10, 11, 8, 9>>,
    <<7, 6, 5, 4, 3, 2, 1, 0, 15, 14, 13, 12, 11, 10, 9, 8>>,
    <<8, 9, 10, 11, 12, 13, 14, 15, 0, 1, 2, 3, 4, 5, 6, 7>>,
    <<9, 8, 11, 10, 13, 12, 15, 14, 1, 0, 3, 2, 5, 4, 7, 6>>,
    <<10, 11, 8, 9, 14, 15, 12, 13, 2, 3, 0, 1, 6, 7, 4, 5>>,
    <<11, 10, 9, 8, 15, 14, 13, 12, 3, 2, 1, 0, 7, 6, 5, 4>>,
    <<12, 13, 14, 15, 8, 9, 10, 11, 4, 5, 6, 7, 0, 1, 2, 3>>,
    <<13, 12, 15, 14, 9, 8, 11, 10, 5, 4, 7, 6, 1, 0, 3, 2>>,
    <<14, 15, 12, 13, 10, 11, 8, 9, 6, 7, 4, 5, 2, 3, 0, 1>>,
    <<15, 14, 13, 12, 11, 10, 9, 8, 7, 6, 5, 4, 3, 2, 1, 0>>
  >>

\* a ^ b on bytes.
BitXor(a, b) ==
    16 * XorNibble[(a \div 16) + 1][(b \div 16) + 1] + XorNibble[(a % 16) + 1][(b % 16) + 1]

\* A u32 is kept as its four little-endian bytes (to_le_bytes).
LE32(n) == << n % 256, (n \div 256) % 256, (n \div 65536) % 256, (n \div 16777216) % 256 >>
Xor32(x, y) == << BitXor(x[1], y[1]), BitXor(x[2], y[2]), BitXor(x[3], y[3]), BitXor(x[4], y[4]) >>
CrcOnes == << 255, 255, 255, 255 >>

\* The byte table of the reflected CRC-32 (IEEE 802.3, polynomial 0xEDB88320):
\* entry i + 1 is byte i after eight shift-and-xor steps, as little-endian bytes.
CrcTable ==
  <<
    <<0, 0, 0, 0>>, <<150, 48, 7, 119>>, <<44, 97, 14, 238>>, <<186, 81, 9, 153>>,
    <<25, 196, 109, 7>>, <<143, 244, 106, 112>>, <<53, 165, 99, 233>>, <<163, 149, 100, 158>>,
    <<50, 136, 219, 14>>, <<164, 184, 220, 121>>, <<30, 233, 213, 224>>, <<136, 217, 210, 151>>,
    <<43, 76, 182, 9>>, <<189, 124, 177, 126>>, <<7, 45, 184, 231>>, <<145, 29, 191, 144>>,
    <<100, 16, 183, 29>>, <<242, 32, 176, 106>>, <<72, 113, 185, 243>>, <<222, 65, 190, 132>>,
    <<125, 212, 218, 26>>, <<235, 228, 221, 109>>, <<81, 181, 212, 244>>, <<199, 133, 211, 131>>,
    <<86, 152, 108, 19>>, <<192, 168, 107, 100>>, <<122, 249, 98, 253>>, <<236, 201, 101, 138>>,
    <<79, 92, 1, 20>>, <<217, 108, 6, 99>>, <<99, 61, 15, 250>>, <<245, 13, 8, 141>>,
    <<200, 32, 110, 59>>, <<94, 16, 105, 76>>, <<228, 65, 96, 213>>, <<114, 113, 103, 162>>,
    <<209, 228, 3, 60>>, <<71, 212, 4, 75>>, <<253, 133, 13, 210>>, <<107, 181, 10, 165>>,
    <<250, 168, 181, 53>>, <<108, 152, 178, 66>>, <<214, 201, 187, 219>>, <<64, 249, 188, 172>>,
    <<227, 108, 216, 50>>, <<117, 92, 223, 69>>, <<207, 13, 214, 220>>, <<89, 61, 209, 171>>,
    <<172, 48, 217, 38>>, <<58, 0, 222, 81>>, <<128, 81, 215, 200>>, <<22, 97, 208, 191>>,
    <<181, 244, 180, 33>>, <<35, 196, 179, 86>>, <<153, 149, 186, 207>>, <<15, 165, 189, 184>>,
    <<158, 184, 2, 40>>, <<8, 136, 5, 95>>, <<178, 217, 12, 198>>, <<36, 233, 11, 177>>,
    <<135, 124, 111, 47>>, <<17, 76, 104, 88>>, <<171, 29, 97, 193>>, <<61, 45, 102, 182>>,
    <<144, 65, 220, 118>>, <<6, 113, 219, 1>>, <<188, 32, 210, 152>>, <<42, 16, 213, 239>>,
    <<137, 133, 177, 113>>, <<31, 181, 182, 6>>, <<165, 228, 191, 159>>, <<51, 212, 184, 232>>,
    <<162, 201, 7, 120>>, <<52, 249, 0, 15>>, <<142, 168, 9, 150>>, <<24, 152, 14, 225>>,
    <<187, 13, 106, 127>>, <<45, 61, 109, 8>>, <<151, 108, 100, 145>>, <<1, 92, 99, 230>>,
    <<244, 81, 107, 107>>, <<98, 97, 108, 28>>, <<216, 48, 101, 133>>, <<78, 0, 98, 242>>,
    <<237, 149, 6, 108>>, <<123, 165, 1, 27>>, <<193, 244, 8, 130>>, <<87, 196, 15, 245>>,
    <<198, 217, 176, 101>>, <<80, 233, 183, 18>>, <<234, 184, 190, 139>>, <<124, 136, 185, 252>>,
    <<223, 29, 221, 98>>, <<73, 45, 218, 21>>, <<243, 124, 211, 140>>, <<101, 76, 212, 251>>,
    <<88, 97, 178, 77>>, <<206, 81, 181, 58>>, <<116, 0, 188, 163>>, <<226, 48, 187, 212>>,
    <<65, 165, 223, 74>>, <<215, 149, 216, 61>>, <<109, 196, 209, 164>>, <<251, 244, 214, 211>>,
    <<106, 233, 105, 67>>, <<252, 217, 110, 52>>, <<70, 136, 103, 173>>, <<208, 184, 96, 218>>,
    <<115, 45, 4, 68>>, <<229, 29, 3, 51>>, <<95, 76, 10, 170>>, <<201, 124, 13, 221>>,
    <<60, 113, 5, 80>>, <<170, 65, 2, 39>>, <<16, 16, 11, 190>>, <<134, 32, 12, 201>>,
    <<37, 181, 104, 87>>, <<179, 133, 111, 32>>, <<9, 212, 102, 185>>, <<159, 228, 97, 206>>,
    <<14, 249, 222, 94>>, <<152, 201, 217, 41>>, <<34, 152, 208, 176>>, <<180, 168, 215, 199>>,
    <<23, 61, 179, 89>>, <<129, 13, 180, 46>>, <<59, 92, 189, 183>>, <<173, 108, 186, 192>>,
    <<32, 131, 184, 237>>, <<182, 179, 191, 154>>, <<12, 226, 182, 3>>, <<154, 210, 177, 116>>,
    <<57, 71, 213, 234>>, <<175, 119, 210, 157>>, <<21, 38, 219, 4>>, <<131, 22, 220, 115>>,
    <<18, 11, 99, 227>>, <<132, 59, 100, 148>>, <<62, 106, 109, 13>>, <<168, 90, 106, 122>>,
    <<11, 207, 14, 228>>, <<157, 255, 9, 147>>, <<39, 174, 0, 10>>, <<177, 158, 7, 125>>,
    <<68, 147, 15, 240>>, <<210, 163, 8, 135>>, <<104, 242, 1, 30>>, <<254, 194, 6, 105>>,
    <<93, 87, 98, 247>>, <<203, 103, 101, 128>>, <<113, 54, 108, 25>>, <<231, 6, 107, 110>>,
    <<118, 27, 212, 254>>, <<224, 43, 211, 137>>, <<90, 122, 218, 16>>, <<204, 74, 221, 103>>,
    <<111, 223, 185, 249>>, <<249, 239, 190, 142>>, <<67, 190, 183, 23>>, <<213, 142, 176, 96>>,
    <<232, 163, 214, 214>>, <<126, 147, 209, 161>>, <<196, 194, 216, 56>>, <<82, 242, 223, 79>>,
    <<241, 103, 187, 209>>, <<103, 87, 188, 166>>, <<221, 6, 181, 63>>, <<75, 54, 178, 72>>,
    <<218, 43, 13, 216>>, <<76, 27, 10, 175>>, <<246, 74, 3, 54>>, <<96, 122, 4, 65>>,
    <<195, 239, 96, 223>>, <<85, 223, 103, 168>>, <<239, 142, 110, 49>>, <<121, 190, 105, 70>>,
    <<140, 179, 97, 203>>, <<26, 131, 102, 188>>, <<160, 210, 111, 37>>, <<54, 226, 104, 82>>,
    <<149, 119, 12, 204>>, <<3, 71, 11, 187>>, <<185, 22, 2, 34>>, <<47, 38, 5, 85>>,
    <<190, 59, 186, 197>>, <<40, 11, 189, 178>>, <<146, 90, 180, 43>>, <<4, 106, 179, 92>>,
    <<167, 255, 215, 194>>, <<49, 207, 208, 181>>, <<139, 158, 217, 44>>, <<29, 174, 222, 91>>,
    <<176, 194, 100, 155>>, <<38, 242, 99, 236>>, <<156, 163, 106, 117>>, <<10, 147, 109, 2>>,
    <<169, 6, 9, 156>>, <<63, 54, 14, 235>>, <<133, 103, 7, 114>>, <<19, 87, 0, 5>>,
    <<130, 74, 191, 149>>, <<20, 122, 184, 226>>, <<174, 43, 177, 123>>, <<56, 27, 182, 12>>,
    <<155, 142, 210, 146>>, <<13, 190, 213, 229>>, <<183, 239, 220, 124>>, <<33, 223, 219, 11>>,
    <<212, 210, 211, 134>>, <<66, 226, 212, 241>>, <<248, 179, 221, 104>>, <<110, 131, 218, 31>>,
    <<205, 22, 190, 129>>, <<91, 38, 185, 246>>, <<225, 119, 176, 111>>, <<119, 71, 183, 24>>,
    <<230, 90, 8, 136>>, <<112, 106, 15, 255>>, <<202, 59, 6, 102>>, <<92, 11, 1, 17>>,
    <<255, 158, 101, 143>>, <<105, 174, 98, 248>>, <<211, 255, 107, 97>>, <<69, 207, 108, 22>>,
    <<120, 226, 10, 160>>, <<238, 210, 13, 215>>, <<84, 131, 4, 78>>, <<194, 179, 3, 57>>,
    <<97, 38, 103, 167>>, <<247, 22, 96, 208>>, <<77, 71, 105, 73>>, <<219, 119, 110, 62>>,
    <<74, 106, 209, 174>>, <<220, 90, 214, 217>>, <<102, 11, 223, 64>>, <<240, 59, 216, 55>>,
    <<83, 174, 188, 169>>, <<197, 158, 187, 222>>, <<127, 207, 178, 71>>, <<233, 255, 181, 48>>,
    <<28, 242, 189, 189>>, <<138, 194, 186, 202>>, <<48, 147, 179, 83>>, <<166, 163, 180, 36>>,
    <<5, 54, 208, 186>>, <<147, 6, 215, 205>>, <<41, 87, 222, 84>>, <<191, 103, 217, 35>>,
    <<46, 122, 102, 179>>, <<184, 74, 97, 196>>, <<2, 27, 104, 93>>, <<148, 43, 111, 42>>,
    <<55, 190, 11, 180>>, <<161, 142, 12, 195>>, <<27, 223, 5, 90>>, <<141, 239, 2, 45>>
  >>

\* One byte b folded into the running value c.
CrcByte(c, b) == Xor32(CrcTable[BitXor(c[1], b) + 1], <<c[2], c[3], c[4], 0>>)

\* The running value after the first n bytes of data. The test c[1] >= 0 is
\* always true: it makes TLC compute c before it descends, which keeps the
\* evaluation stack shallow.
RECURSIVE CrcFold(_, _)
CrcFold(data, n) ==
    IF n = 0 THEN CrcOnes
    ELSE IF n % 4 # 0
    THEN LET c == CrcFold(data, n - 1)
         IN  IF c[1] >= 0 THEN CrcByte(c, data[n]) ELSE c
    ELSE LET c == CrcFold(data, n - 4)
         IN  IF c[1] >= 0
             THEN CrcByte(CrcByte(CrcByte(CrcByte(c, data[n - 3]), data[n - 2]), data[n - 1]), data[n])
             ELSE c

\* crc32fast::hash(buf), as the four bytes of crc.to_le_bytes().
Crc32(data) == Xor32(CrcFold(data, Len(data)), CrcOnes)

\* ---------------------------------------------------------------- MemTable
\* MemTable { entries: BTreeMap<Key, Option<Value>>, size_bytes }.
\* entries is a function whose domain is the set of keys present.
MemTable_new == [entries |-> << >>, size_bytes |-> 0]

saturating_sub(a, b) == IF a >= b THEN a - b ELSE 0

\* An old_size that leaves out the bytes of the old value.
old_size_key_only(mt, key) == Len(key)

\* old_size = key.len() + old_val.as_ref().map_or(0, |v| v.len())
old_size(mt, key) ==
    Len(key) + (IF IsSome(mt.entries[key]) THEN Len(Unwrap(mt.entries[key])) ELSE 0)

MapInsert(m, key, o) == [x \in (DOMAIN m) \cup {key} |-> IF x = key THEN o ELSE m[x]]

MemTable_insert(mt, key, value) ==
    LET entry_size == Len(key) + Len(value)
        s1 == IF key \in DOMAIN mt.entries
              THEN saturating_sub(mt.size_bytes, old_size(mt, key))
              ELSE mt.size_bytes
    IN  [entries |-> MapInsert(mt.entries, key, Some(value)), size_bytes |-> s1 + entry_size]

\* A delete that removes the entry and leaves no tombstone.
MemTable_delete_removes(mt, key) ==
    [entries |-> [x \in (DOMAIN mt.entries) \ {key} |-> mt.entries[x]],
     size_bytes |-> IF key \in DOMAIN mt.entries
                    THEN saturating_sub(mt.size_bytes, old_size(mt, key))
                    ELSE mt.size_bytes]

MemTable_delete(mt, key) ==
    LET key_size == Len(key)
        s1 == IF key \in DOMAIN mt.entries
              THEN saturating_sub(mt.size_bytes, old_size(mt, key))
              ELSE mt.size_bytes
    IN  [entries |-> MapInsert(mt.entries, key, None), size_bytes |-> s1 + key_size]

MemTable_clear(mt) == [entries |-> << >>, size_bytes |-> 0]

MemTable_get(mt, key) ==
    IF key \in DOMAIN mt.entries THEN mt.entries[key] ELSE None

\* entries.contains_key(key)
MemTable_contains_key(mt, key) == key \in DOMAIN mt.entries

\* A len that leaves the tombstones out.
MemTable_len_live(mt) == Cardinality({k \in DOMAIN mt.entries : IsSome(mt.entries[k])})

MemTable_len(mt) == Cardinality(DOMAIN mt.entries)
MemTable_is_empty(mt) == DOMAIN mt.entries = {}

\* Ord for Vec<u8>: lexicographic on unsigned bytes, a proper prefix first.
RECURSIVE KeyLess(_, _)
KeyLess(a, b) ==
    IF b = << >> THEN FALSE
    ELSE IF a = << >> THEN TRUE
    ELSE IF a[1] # b[1] THEN a[1] < b[1]
    ELSE KeyLess(Tail(a), Tail(b))

\* The iteration order of the BTreeMap.
RECURSIVE KeysInOrder(_)
KeysInOrder(S) ==
    IF S = {} THEN << >>
    ELSE LET m == CHOOSE x \in S : \A y \in S \ {x} : KeyLess(x, y)
         IN  <<m>> \o KeysInOrder(S \ {m})

RECURSIVE FilterLive(_, _)
FilterLive(m, ks) ==
    IF ks = << >> THEN << >>
    ELSE IF IsSome(m[Head(ks)])
         THEN << <<Head(ks), Unwrap(m[Head(ks)])>> >> \o FilterLive(m, Tail(ks))
         ELSE FilterLive(m, Tail(ks))

\* entries.iter().filter_map(|(k, v)| v.as_ref().map(|val| (k, val))).collect()
MemTable_scan(mt) == FilterLive(mt.entries, KeysInOrder(DOMAIN mt.entries))

\* --------------------------------------------------------------------- WAL
OpPut == 1
OpDelete == 2

\* [op_type][key_len LE][key][val_len LE][value][crc LE]
encode_put(key, value) ==
    LET buf == <<OpPut>> \o LE32(Len(key)) \o key \o LE32(Len(value)) \o value
    IN  buf \o Crc32(buf)

\* A delete written with the op_type of a put.
encode_delete_as_put(key) == encode_put(key, << >>)

encode_delete(key) ==
    LET buf == <<OpDelete>> \o LE32(Len(key)) \o key \o LE32(0)
    IN  buf \o Crc32(buf)

\* A length check that lets every length through.
LenExceedsNever(cursor, b, len) == FALSE

\* u32::from_le_bytes(..) as usize, for a length field b. The files of the
\* model are far shorter than 65536 bytes, so cursor + n > len holds whenever
\* one of the two high bytes is set; the low half is then all that is needed.
LenExceeds(cursor, b, len) == b[3] # 0 \/ b[4] # 0 \/ cursor + b[1] + 256 * b[2] > len
LenLow(b) == b[1] + 256 * b[2]

\* The while loop of recover: cursor counts the bytes consumed, data[cursor + 1]
\* is the next byte. The result carries the MemTable, the offset at which
\* the loop stopped applying records (the end of the last applied record) and
\* hi, the number of leading bytes of data the last pass has indexed.
RECURSIVE RecoverLoop(_, _, _)
RecoverLoop(data, cursor, memtable) ==
    LET len == Len(data)
        stop(hi) == [memtable |-> memtable, good |-> cursor, hi |-> hi]
    IN
    IF ~(cursor < len) THEN stop(cursor)
    ELSE IF cursor + 5 > len THEN stop(cursor)
    ELSE
      LET op_byte == data[cursor + 1]
          klb == SubSeq(data, cursor + 2, cursor + 5)
          c1 == cursor + 5
      IN
      IF LenExceeds(c1, klb, len) THEN stop(c1)
      ELSE
        LET key_len == LenLow(klb)
            key == SubSeq(data, c1 + 1, c1 + key_len)
            c2 == c1 + key_len
        IN
        IF c2 + 4 > len THEN stop(c2)
        ELSE
          LET vlb == SubSeq(data, c2 + 1, c2 + 4)
              c3 == c2 + 4
          IN
          IF LenExceeds(c3, vlb, len) THEN stop(c3)
          ELSE
            LET val_len == LenLow(vlb)
                value == SubSeq(data, c3 + 1, c3 + val_len)
                c4 == c3 + val_len
            IN
            IF c4 + 4 > len THEN stop(c4)
            ELSE
              LET stored_crc == SubSeq(data, c4 + 1, c4 + 4)
                  c5 == c4 + 4
                  record_data == SubSeq(data, cursor + 1, c4)
              IN
              IF stored_crc # Crc32(record_data) THEN stop(c5)
              ELSE IF op_byte = 1
                   THEN RecoverLoop(data, c5, MemTable_insert(memtable, key, value))
              ELSE IF op_byte = 2
                   THEN RecoverLoop(data, c5, MemTable_delete(memtable, key))
              ELSE stop(c5)

\* A recovery that gives up the whole file when any part of it is unreadable.
recover_all_or_nothing(data) ==
    LET r == RecoverLoop(data, 0, MemTable_new)
    IN  IF r.good = Len(data) THEN r.memtable ELSE MemTable_new

\* WriteAheadLog::recover(path). The file of the model always exists once the
\* engine has been opened; a missing file and an empty file both give an
\* empty MemTable.
recover(data) == RecoverLoop(data, 0, MemTable_new).memtable
\* Offset of the end of the last record recover applies.
good_prefix(data) == RecoverLoop(data, 0, MemTable_new).good

\* ------------------------------------------------------------------ state
VARIABLES
    up,                 \* TRUE while an Oblivion value exists in a live process
    memtable_max_size,  \* config.memtable_max_size
    memtable,           \* Oblivion.memtable
    wal_file,           \* the bytes of data_dir/oblivion.wal
    wal_buf,            \* bytes held by the BufWriter of Oblivion.wal, not yet in the file
    flush_count,        \* Oblivion.flush_count
    sst_files,          \* the .sst files of data_dir: records [id, entries]
    \* history of the calls, read by the properties only
    ref,                \* per key, the latest mutation that returned Ok
    dirty,              \* the keys with a put or delete that returned Err since then
    last,               \* the latest call: arguments, result, failed step
    sess,               \* what happened since the latest open
    sst_made,           \* the ids of the flushes completed on this data_dir
    ops, faults, crashes,
    \* the parts of the crate that are exercised on their own
    replay,             \* WriteAheadLog::recover run on a given file
    conc,               \* ConcurrentOblivion: the RwLock and the threads that use it
    bloom,              \* a BloomFilter and the keys inserted into it
    compact,            \* compact_sstables: its input tables and its result
    planner,            \* SizeTieredCompaction::select_compaction: tables and result
    ttl,                \* a TtlIndex, the clock, and an engine that stores with TTL
    wal                 \* a WriteAheadLog used directly: what its calls returned

engine_vars == << up, memtable_max_size, memtable, wal_file, wal_buf, flush_count,
                  sst_files, ref, dirty, last, sess, sst_made, ops, faults, crashes >>
lib_vars == << replay, conc, bloom, compact, planner, ttl, wal >>
vars == << engine_vars, lib_vars >>

\* The value of a part that takes no step in a behaviour.
Off == [on |-> FALSE]
LibIdle ==
    /\ replay = Off /\ conc = Off /\ bloom = Off
    /\ compact = Off /\ planner = Off /\ ttl = Off /\ wal = Off

\* ------------------------------------------------------------ I/O outcomes
\* The I/O step of a put or delete that returns an error:
\*   wal_flush     writer.flush() of an append fails after n bytes reached the file
\*   wal_sync      sync_all() of an append fails (the bytes are in the file)
\*   trunc_open    the open(.. truncate(true) ..) of truncate fails
\*   trunc_reopen  the open(.. append(true) ..) of truncate fails
NoFault == [step |-> "none", n |-> 0]
\* Where a failing flush stops: before the first byte, after the key (byte 6),
\* inside the checksum (byte 13); every record here has 14 bytes or more.
TornCuts == {0, 6, 13}
FaultSet ==
    [step : {"wal_flush"}, n : TornCuts]
    \cup [step : {"wal_sync", "trunc_open", "trunc_reopen"}, n : {0}]

\* write_all + flush + sync_all on the BufWriter w = [file, buf]. A failed
\* flush leaves the unwritten bytes in the buffer of the BufWriter. hit says
\* that the call reached the step the fault names.
wal_append(w, encoded, fault) ==
    LET pending == w.buf \o encoded
    IN  IF fault.step = "wal_flush" /\ fault.n < Len(pending)
        THEN [ok |-> FALSE, hit |-> TRUE,
              file |-> w.file \o SubSeq(pending, 1, fault.n),
              buf |-> SubSeq(pending, fault.n + 1, Len(pending))]
        ELSE IF fault.step = "wal_sync"
        THEN [ok |-> FALSE, hit |-> TRUE, file |-> w.file \o pending, buf |-> << >>]
        ELSE [ok |-> TRUE, hit |-> fault.step = "none", file |-> w.file \o pending, buf |-> << >>]

\* A truncate that leaves the bytes of the BufWriter where they are.
wal_truncate_unflushed(w, fault) ==
    [ok |-> TRUE, hit |-> fault.step = "none", file |-> << >>, buf |-> w.buf]

\* WriteAheadLog::truncate: flush, open with truncate, reopen for append.
\* trunc_flush is a writer.flush() that fails after n of the buffered bytes
\* reached the file.
wal_truncate(w, fault) ==
    LET file1 == w.file \o w.buf
    IN  IF fault.step = "trunc_flush" /\ fault.n < Len(w.buf)
        THEN [ok |-> FALSE, hit |-> TRUE,
              file |-> w.file \o SubSeq(w.buf, 1, fault.n),
              buf |-> SubSeq(w.buf, fault.n + 1, Len(w.buf))]
        ELSE IF fault.step = "trunc_open"
        THEN [ok |-> FALSE, hit |-> TRUE, file |-> file1, buf |-> << >>]
        ELSE IF fault.step = "trunc_reopen"
        THEN [ok |-> FALSE, hit |-> TRUE, file |-> << >>, buf |-> << >>]
        ELSE [ok |-> TRUE, hit |-> fault.step = "none", file |-> << >>, buf |-> << >>]

\* SSTable::flush_from_memtable: returns Ok and writes nothing.
flush_from_memtable(path, entries) ==
    [ok |-> TRUE, path |-> path, entry_count |-> Len(entries), file_size |-> 0]
\* The files a call of flush_from_memtable leaves in data_dir: none.
flush_from_memtable_files(path, entries) == {}

\* A maybe_flush that never finds the threshold reached.
maybe_flush_never(mt, w, fc, max, fault) ==
    [ok |-> TRUE, hit |-> fault.step = "none", mt |-> mt, file |-> w.file, buf |-> w.buf,
     fc |-> fc, flushed |-> FALSE]

\* Oblivion::maybe_flush on (memtable mt, writer w, flush_count fc).
maybe_flush(mt, w, fc, max, fault) ==
    IF mt.size_bytes >= max
    THEN LET entries == MemTable_scan(mt)
             sst == flush_from_memtable(fc, entries)
             t == wal_truncate(w, fault)
         IN  IF ~sst.ok
             THEN [ok |-> FALSE, hit |-> FALSE, mt |-> mt, file |-> w.file, buf |-> w.buf,
                   fc |-> fc, flushed |-> TRUE]
             ELSE IF ~t.ok
             THEN [ok |-> FALSE, hit |-> t.hit, mt |-> mt, file |-> t.file, buf |-> t.buf,
                   fc |-> fc, flushed |-> TRUE]
             ELSE [ok |-> TRUE, hit |-> t.hit, mt |-> MemTable_clear(mt), file |-> t.file,
                   buf |-> t.buf, fc |-> fc + 1, flushed |-> TRUE]
    ELSE [ok |-> TRUE, hit |-> fault.step = "none", mt |-> mt, file |-> w.file, buf |-> w.buf,
          fc |-> fc, flushed |-> FALSE]

apply(mt, op, key, value) ==
    IF op = "put" THEN MemTable_insert(mt, key, value) ELSE MemTable_delete(mt, key)

\* The ordering the `?` after the append rules out: the MemTable updated
\* whether or not the append succeeded.
apply_regardless(a, mt, op, key, value) ==
    apply(mt, op, key, value)

\* self.wal.append_..(..)?; self.memtable.insert / delete(..): the MemTable
\* after the append step a of a put or delete.
after_append(a, mt, op, key, value) ==
    IF a.ok THEN apply(mt, op, key, value) ELSE mt

\* Oblivion::put / Oblivion::delete as a function of the engine state: the
\* result and the state the call leaves. encoded is encode(op, key, value),
\* the record append_put / append_delete builds first; mid is the MemTable
\* before maybe_flush runs.
write(mt, w, fc, max, op, key, value, encoded, fault) ==
    LET a == wal_append(w, encoded, fault)
        m1 == after_append(a, mt, op, key, value)
    IN  IF ~a.ok
        THEN [ok |-> FALSE, hit |-> a.hit, mt |-> m1, mid |-> m1, file |-> a.file,
              buf |-> a.buf, fc |-> fc, flushed |-> FALSE]
        ELSE LET f == maybe_flush(m1, a, fc, max, fault)
             IN  [ok |-> f.ok, hit |-> f.hit, mt |-> f.mt, mid |-> m1, file |-> f.file,
                  buf |-> f.buf, fc |-> f.fc, flushed |-> f.flushed]

\* ------------------------------------------------------------------- reads
Oblivion_get(key) == MemTable_get(memtable, key)
Oblivion_scan == MemTable_scan(memtable)
Oblivion_len == MemTable_len(memtable)
Oblivion_is_empty == MemTable_is_empty(memtable)
Oblivion_memtable_size == memtable.size_bytes

\* ----------------------------------------------------------------- history
Never == [st |-> "never", val |-> << >>]
NoCall == [op |-> "none", key |-> << >>, value |-> << >>, ok |-> TRUE, step |-> "none",
           flushed |-> FALSE]
NewSession(torn) == [torn |-> torn, flushed |-> FALSE, faulted |-> FALSE, acked |-> {}]

\* ----------------------------------------------------------------- actions
\* A freshly created data_dir, opened.
Init ==
    /\ up = TRUE
    /\ memtable_max_size \in MemSizes
    /\ memtable = MemTable_new
    /\ wal_file = << >>
    /\ wal_buf = << >>
    /\ flush_count = 0
    /\ sst_files = {}
    /\ sst_made = {}
    /\ ref = [k \in Keys |-> Never]
    /\ dirty = {}
    /\ last = [NoCall EXCEPT !.op = "open"]
    /\ sess = NewSession(FALSE)
    /\ ops = 0 /\ faults = 0 /\ crashes = 0
    /\ LibIdle

\* A call of put (op = "put") or delete (op = "delete") with the I/O outcome
\* fault; encoded is the WAL record of the call.
Mutate(op, key, value, encoded, fault) ==
    /\ up
    /\ ops < MaxOps
    /\ fault.step # "none" => faults < MaxFaults
    /\ LET w == [file |-> wal_file, buf |-> wal_buf]
           r == write(memtable, w, flush_count, memtable_max_size, op, key, value, encoded, fault)
       IN  /\ r.hit
           /\ memtable' = r.mt
           /\ wal_file' = r.file
           /\ wal_buf' = r.buf
           /\ flush_count' = r.fc
           /\ sst_files' = IF r.flushed
                           THEN sst_files \cup flush_from_memtable_files(flush_count, MemTable_scan(r.mid))
                           ELSE sst_files
           /\ sst_made' = IF r.flushed /\ r.ok THEN sst_made \cup {flush_count} ELSE sst_made
           /\ ref' = IF r.ok
                     THEN [ref EXCEPT ![key] = [st |-> op, val |-> value]]
                     ELSE ref
           /\ dirty' = IF r.ok THEN dirty \ {key} ELSE dirty \cup {key}
           /\ last' = [op |-> op, key |-> key, value |-> value, ok |-> r.ok,
                       step |-> fault.step, flushed |-> r.flushed]
           /\ sess' = [sess EXCEPT !.flushed = @ \/ r.flushed,
                                   !.faulted = @ \/ (fault.step # "none"),
                                   !.acked = IF r.ok THEN @ \cup {key} ELSE @]
    /\ ops' = ops + 1
    /\ faults' = IF fault.step = "none" THEN faults ELSE faults + 1
    /\ UNCHANGED << up, memtable_max_size, crashes, lib_vars >>

\* engine.put(key, value): every I/O step succeeds, or one of them fails.
Put(key, value) ==
    LET encoded == encode_put(key, value)
    IN  \/ Mutate("put", key, value, encoded, NoFault)
        \/ \E fault \in FaultSet : Mutate("put", key, value, encoded, fault)

\* engine.delete(key): every I/O step succeeds, or one of them fails.
Delete(key) ==
    LET encoded == encode_delete(key)
    IN  \/ Mutate("delete", key, << >>, encoded, NoFault)
        \/ \E fault \in FaultSet : Mutate("delete", key, << >>, encoded, fault)

\* The process terminates: the file keeps its bytes, the memory is lost.
Crash ==
    /\ up
    /\ crashes < MaxCrashes
    /\ up' = FALSE
    /\ memtable' = MemTable_new
    /\ wal_buf' = << >>
    /\ flush_count' = 0
    /\ last' = [NoCall EXCEPT !.op = "crash"]
    /\ crashes' = crashes + 1
    /\ UNCHANGED << memtable_max_size, wal_file, sst_files, ref, dirty, sess, sst_made, ops, faults, lib_vars >>

\* An open whose log is opened with truncate(true) in place of append(true).
OpenTruncating ==
    /\ ~up
    /\ up' = TRUE
    /\ memtable' = recover(wal_file)
    /\ wal_file' = << >>
    /\ wal_buf' = << >>
    /\ flush_count' = 0
    /\ last' = [NoCall EXCEPT !.op = "open"]
    /\ sess' = NewSession(good_prefix(wal_file) < Len(wal_file))
    /\ UNCHANGED << memtable_max_size, sst_files, ref, dirty, sst_made, ops, faults, crashes, lib_vars >>

\* Oblivion::open on the same data_dir: recover, then open the log for append.
Open ==
    /\ ~up
    /\ up' = TRUE
    /\ memtable' = recover(wal_file)
    /\ wal_buf' = << >>
    /\ flush_count' = 0
    /\ last' = [NoCall EXCEPT !.op = "open"]
    /\ sess' = NewSession(good_prefix(wal_file) < Len(wal_file))
    /\ UNCHANGED << memtable_max_size, wal_file, sst_files, ref, dirty, sst_made, ops, faults, crashes, lib_vars >>

Next ==
    \/ \E k \in Keys, v \in Values : Put(k, v)
    \/ \E k \in Keys : Delete(k)
    \/ Crash
    \/ Open

Spec == Init /\ [][Next]_vars

\* One process lifetime: calls of put and delete only, no crash.
NextSession ==
    \/ \E k \in Keys, v \in Values : Put(k, v)
    \/ \E k \in Keys : Delete(k)

SpecSession == Init /\ [][NextSession]_vars

\* --------------------------------------------------- the engine being read
\* The read calls of a running engine; last records the call and what it
\* returned. The counters of EngineMetrics are not part of the state.
read_rest == << up, memtable_max_size, memtable, wal_file, wal_buf, flush_count, sst_files,
                ref, dirty, sess, sst_made, ops, faults, crashes, lib_vars >>

\* A get that also empties the MemTable.
EngineGetAndClear(key) ==
    /\ up
    /\ last' = [NoCall EXCEPT !.op = "get", !.key = key, !.value = Oblivion_get(key)]
    /\ memtable' = MemTable_clear(memtable)
    /\ UNCHANGED << up, memtable_max_size, wal_file, wal_buf, flush_count, sst_files,
                    ref, dirty, sess, sst_made, ops, faults, crashes, lib_vars >>

\* engine.get(key)
EngineGet(key) ==
    /\ up
    /\ last' = [NoCall EXCEPT !.op = "get", !.key = key, !.value = Oblivion_get(key)]
    /\ UNCHANGED read_rest

\* engine.scan()
EngineScan ==
    /\ up
    /\ last' = [NoCall EXCEPT !.op = "scan", !.value = Oblivion_scan]
    /\ UNCHANGED read_rest

\* engine.len()
EngineLen ==
    /\ up
    /\ last' = [NoCall EXCEPT !.op = "len", !.value = Oblivion_len]
    /\ UNCHANGED read_rest

\* engine.is_empty()
EngineIsEmpty ==
    /\ up
    /\ last' = [NoCall EXCEPT !.op = "is_empty", !.value = Oblivion_is_empty]
    /\ UNCHANGED read_rest

\* engine.memtable_size()
EngineMemtableSize ==
    /\ up
    /\ last' = [NoCall EXCEPT !.op = "memtable_size", !.value = Oblivion_memtable_size]
    /\ UNCHANGED read_rest

\* One process lifetime with reads between the calls of put and delete.
NextReads ==
    \/ \E k \in Keys, v \in Values : Put(k, v)
    \/ \E k \in Keys : Delete(k)
    \/ \E k \in Keys : EngineGet(k)
    \/ EngineScan
    \/ EngineLen
    \/ EngineIsEmpty
    \/ EngineMemtableSize

SpecReads == Init /\ [][NextReads]_vars

\* The engine while a part of the crate is exercised on its own.
EngineIdle ==
    /\ up = FALSE
    /\ memtable_max_size = 0
    /\ memtable = MemTable_new
    /\ wal_file = << >>
    /\ wal_buf = << >>
    /\ flush_count = 0
    /\ sst_files = {}
    /\ sst_made = {}
    /\ ref = [k \in Keys |-> Never]
    /\ dirty = {}
    /\ last = NoCall
    /\ sess = NewSession(FALSE)
    /\ ops = 0 /\ faults = 0 /\ crashes = 0

\* ------------------------------------------------- recover on a given file
\* The pieces a log file is made of: the record of a put or of a delete, a
\* record with op_type 3 and a matching checksum, a put record whose last
\* checksum byte is off by one, the first cut bytes of a put record, and a
\* record head whose key_len is u32::MAX.
RecCuts == {3, 5, 6, 9, 10, 13}
Segments ==
    [kind : {"put"}, key : Keys, value : Values, cut : {0}]
        \cup [kind : {"delete"}, key : Keys, value : {<< >>}, cut : {0}]
        \cup [kind : {"bad_op", "bad_crc"}, key : {<<1>>}, value : {<<1>>}, cut : {0}]
        \cup [kind : {"torn"}, key : {<<1>>}, value : {<<1>>}, cut : RecCuts]
        \cup [kind : {"huge_len"}, key : {<<1>>}, value : {<<1>>}, cut : {0}]

SegBytes(s) ==
    IF s.kind = "put" THEN encode_put(s.key, s.value)
    ELSE IF s.kind = "delete" THEN encode_delete(s.key)
    ELSE IF s.kind = "bad_op"
    THEN LET buf == <<3>> \o LE32(Len(s.key)) \o s.key \o LE32(Len(s.value)) \o s.value
         IN  buf \o Crc32(buf)
    ELSE IF s.kind = "bad_crc"
    THEN LET e == encode_put(s.key, s.value)
         IN  [e EXCEPT ![Len(e)] = (e[Len(e)] + 1) % 256]
    ELSE IF s.kind = "huge_len"
    THEN <<OpPut, 255, 255, 255, 255>> \o s.key
    ELSE SubSeq(encode_put(s.key, s.value), 1, s.cut)

RECURSIVE FileOf(_)
FileOf(segs) ==
    IF segs = << >> THEN << >> ELSE SegBytes(Head(segs)) \o FileOf(Tail(segs))

SegLists == UNION {[1..n -> Segments] : n \in 0..MaxRecords}

InitRecover ==
    /\ EngineIdle
    /\ conc = Off /\ bloom = Off /\ compact = Off /\ planner = Off /\ ttl = Off /\ wal = Off
    /\ \E segs \in SegLists :
           replay = [on |-> TRUE, segs |-> segs, data |-> FileOf(segs),
                     done |-> FALSE, memtable |-> MemTable_new]

\* WriteAheadLog::recover(path) on the file replay.data.
WalRecover ==
    /\ replay.on /\ ~replay.done
    /\ replay' = [replay EXCEPT !.done = TRUE, !.memtable = recover(replay.data)]
    /\ UNCHANGED << engine_vars, conc, bloom, compact, planner, ttl, wal >>

NextRecover == WalRecover

SpecRecover == InitRecover /\ [][NextRecover]_vars

\* ------------------------------------------------------ ConcurrentOblivion
\* inner: Arc<RwLock<Oblivion>>. Every clone holds the same Arc, so every
\* thread works on the one engine of the variables memtable, wal_file, ..
\* conc.writers / conc.readers are the threads holding the write / a read
\* guard, conc.th[t] is thread t: its position, its call, the MemTable value
\* it has read (local) and the result of its read (seen). conc.committed is
\* the engine as the latest write left it when it released the lock.
Threads == 1..NumThreads
CKeys == {<<t>> : t \in Threads}
\* A threshold every put reaches and one that NumThreads puts do not reach.
ConcMemSizes == {2, 2 * NumThreads + 1}
\* Thread t puts its own key with its own value, as the threads of
\* test_concurrent_writers do, or deletes the key of thread 1.
WriteCalls(t) ==
    [op : {"put"}, key : {<<t>>}, value : {<<t>>}]
        \cup [op : {"delete"}, key : {<<1>>}, value : {<< >>}]
ReadCalls ==
    [op : {"get"}, key : {<<1>>}, value : {<< >>}]
        \cup [op : {"scan"}, key : {<< >>}, value : {<< >>}]
IdleThread ==
    [pc |-> "idle", op |-> "none", key |-> << >>, value |-> << >>,
     local |-> MemTable_new, seen |-> << >>]
Snapshot == [memtable |-> memtable, wal_file |-> wal_file]

\* RwLock::read() / RwLock::write() return a guard when the lock allows it;
\* until then the thread blocks.
can_read_unguarded(l) == TRUE
can_read(l) == l.writers = {}
can_write_unguarded(l) == TRUE
can_write(l) == l.writers = {} /\ l.readers = {}

InitConcurrent ==
    /\ up = TRUE
    /\ memtable_max_size \in ConcMemSizes
    /\ memtable = MemTable_new
    /\ wal_file = << >>
    /\ wal_buf = << >>
    /\ flush_count = 0
    /\ sst_files = {}
    /\ sst_made = {}
    /\ ref = [k \in Keys |-> Never]
    /\ dirty = {}
    /\ last = NoCall
    /\ sess = NewSession(FALSE)
    /\ ops = 0 /\ faults = 0 /\ crashes = 0
    /\ replay = Off /\ bloom = Off /\ compact = Off /\ planner = Off /\ ttl = Off /\ wal = Off
    /\ conc = [on |-> TRUE, writers |-> {}, readers |-> {},
               th |-> [t \in Threads |-> IdleThread],
               committed |-> [memtable |-> MemTable_new, wal_file |-> << >>]]

conc_rest == << up, memtable_max_size, sst_files, sst_made, ref, dirty, last, sess,
               ops, faults, crashes, replay, bloom, compact, planner, ttl, wal >>

\* self.inner.write().unwrap() of put / delete
AcquireWrite(t, c) ==
    /\ conc.on /\ conc.th[t].pc = "idle"
    /\ can_write(conc)
    /\ conc' = [conc EXCEPT !.writers = @ \cup {t},
                            !.th[t] = [@ EXCEPT !.pc = "w_append", !.op = c.op,
                                                !.key = c.key, !.value = c.value]]
    /\ UNCHANGED << memtable, wal_file, wal_buf, flush_count, conc_rest >>

\* Oblivion::put / delete, first statement: the WAL append
WAppend(t) ==
    /\ conc.on /\ conc.th[t].pc = "w_append"
    /\ LET me == conc.th[t]
           encoded == IF me.op = "put" THEN encode_put(me.key, me.value)
                      ELSE encode_delete(me.key)
           a == wal_append([file |-> wal_file, buf |-> wal_buf], encoded, NoFault)
       IN  /\ wal_file' = a.file
           /\ wal_buf' = a.buf
    /\ conc' = [conc EXCEPT !.th[t].pc = "w_load"]
    /\ UNCHANGED << memtable, flush_count, conc_rest >>

\* memtable.insert / delete reads the map ..
WLoad(t) ==
    /\ conc.on /\ conc.th[t].pc = "w_load"
    /\ conc' = [conc EXCEPT !.th[t].pc = "w_store", !.th[t].local = memtable]
    /\ UNCHANGED << memtable, wal_file, wal_buf, flush_count, conc_rest >>

\* .. and writes the updated map and size back
WStore(t) ==
    /\ conc.on /\ conc.th[t].pc = "w_store"
    /\ LET me == conc.th[t]
       IN  memtable' = apply(me.local, me.op, me.key, me.value)
    /\ conc' = [conc EXCEPT !.th[t].pc = "w_flush", !.th[t].local = MemTable_new]
    /\ UNCHANGED << wal_file, wal_buf, flush_count, conc_rest >>

\* maybe_flush up to wal.truncate()
WFlush(t) ==
    /\ conc.on /\ conc.th[t].pc = "w_flush"
    /\ IF memtable.size_bytes >= memtable_max_size
       THEN LET tr == wal_truncate([file |-> wal_file, buf |-> wal_buf], NoFault)
            IN  /\ wal_file' = tr.file
                /\ wal_buf' = tr.buf
                /\ conc' = [conc EXCEPT !.th[t].pc = "w_clear"]
       ELSE /\ conc' = [conc EXCEPT !.th[t].pc = "w_unlock"]
            /\ UNCHANGED << wal_file, wal_buf >>
    /\ UNCHANGED << memtable, flush_count, conc_rest >>

\* maybe_flush: memtable.clear(); flush_count += 1
WClear(t) ==
    /\ conc.on /\ conc.th[t].pc = "w_clear"
    /\ memtable' = MemTable_clear(memtable)
    /\ flush_count' = flush_count + 1
    /\ conc' = [conc EXCEPT !.th[t].pc = "w_unlock"]
    /\ UNCHANGED << wal_file, wal_buf, conc_rest >>

\* the write guard is dropped at the end of the statement
WUnlock(t) ==
    /\ conc.on /\ conc.th[t].pc = "w_unlock"
    /\ conc' = [conc EXCEPT !.writers = @ \ {t}, !.th[t].pc = "done",
                            !.committed = Snapshot]
    /\ UNCHANGED << memtable, wal_file, wal_buf, flush_count, conc_rest >>

\* self.inner.read().unwrap() of get / scan
AcquireRead(t, c) ==
    /\ conc.on /\ conc.th[t].pc = "idle"
    /\ can_read(conc)
    /\ conc' = [conc EXCEPT !.readers = @ \cup {t},
                            !.th[t] = [@ EXCEPT !.pc = "r_read", !.op = c.op,
                                                !.key = c.key, !.value = c.value]]
    /\ UNCHANGED << memtable, wal_file, wal_buf, flush_count, conc_rest >>

\* Oblivion::get / Oblivion::scan under the read guard
RRead(t) ==
    /\ conc.on /\ conc.th[t].pc = "r_read"
    /\ LET me == conc.th[t]
       IN  conc' = [conc EXCEPT !.th[t].pc = "r_unlock",
                                !.th[t].seen = IF me.op = "get"
                                               THEN <<Oblivion_get(me.key)>>
                                               ELSE <<Oblivion_scan>>]
    /\ UNCHANGED << memtable, wal_file, wal_buf, flush_count, conc_rest >>

RUnlock(t) ==
    /\ conc.on /\ conc.th[t].pc = "r_unlock"
    /\ conc' = [conc EXCEPT !.readers = @ \ {t}, !.th[t].pc = "done"]
    /\ UNCHANGED << memtable, wal_file, wal_buf, flush_count, conc_rest >>

NextConcurrent ==
    \E t \in Threads :
        \/ \E c \in WriteCalls(t) : AcquireWrite(t, c)
        \/ WAppend(t)
        \/ WLoad(t)
        \/ WStore(t)
        \/ WFlush(t)
        \/ WClear(t)
        \/ WUnlock(t)
        \/ \E c \in ReadCalls : AcquireRead(t, c)
        \/ RRead(t)
        \/ RUnlock(t)

SpecConcurrent == InitConcurrent /\ [][NextConcurrent]_vars

\* ------------------------------------------- the lock of ConcurrentOblivion
\* The calls of the wrapper as users of the one RwLock, the engine behind it
\* left out: every thread makes one call, put (inner.write()), get
\* (inner.read()) or with_metrics (inner.read(), then the callback f while the
\* guard lives). f is any FnOnce of the caller: it only reads the metrics, or
\* it calls get or put on a clone of the same wrapper. conc.pref and
\* conc.detects are what std::sync::RwLock leaves to the platform: whether a
\* waiting writer holds back new readers, and whether a lock call by a thread
\* that already holds the lock panics instead of blocking.
LockCalls ==
    [op : {"put", "get"}, f : {"none"}]
        \cup [op : {"with_metrics"}, f : {"metrics", "get", "put"}]

InitLock ==
    /\ EngineIdle
    /\ replay = Off /\ bloom = Off /\ compact = Off /\ planner = Off /\ ttl = Off /\ wal = Off
    /\ \E calls \in [Threads -> LockCalls], pref \in BOOLEAN, detects \in BOOLEAN :
           conc = [on |-> TRUE, writers |-> {}, readers |-> {}, pref |-> pref,
                   detects |-> detects,
                   th |-> [t \in Threads |-> [pc |-> "idle", op |-> calls[t].op, f |-> calls[t].f]]]

lock_rest == << engine_vars, replay, bloom, compact, planner, ttl, wal >>

\* The threads blocked in inner.write().
WaitingWriters ==
    {t \in Threads : \/ conc.th[t].pc = "start" /\ conc.th[t].op = "put"
                     \/ conc.th[t].pc = "in_f" /\ conc.th[t].f = "put"}

\* inner.read() returns a guard: no writer holds the lock and, where waiting
\* writers go first, none is waiting.
read_granted == can_read(conc) /\ (conc.pref => WaitingWriters = {})

\* Thread t makes its call and reaches the lock.
LockCall(t) ==
    /\ conc.on /\ conc.th[t].pc = "idle"
    /\ conc' = [conc EXCEPT !.th[t].pc = "start"]
    /\ UNCHANGED lock_rest

\* put: self.inner.write().unwrap()
LockWrite(t) ==
    /\ conc.on /\ conc.th[t].pc = "start" /\ conc.th[t].op = "put"
    /\ can_write(conc)
    /\ conc' = [conc EXCEPT !.writers = @ \cup {t}, !.th[t].pc = "locked"]
    /\ UNCHANGED lock_rest

\* get, with_metrics: self.inner.read().unwrap()
LockRead(t) ==
    /\ conc.on /\ conc.th[t].pc = "start" /\ conc.th[t].op \in {"get", "with_metrics"}
    /\ read_granted
    /\ conc' = [conc EXCEPT !.readers = @ \cup {t}, !.th[t].pc = "locked"]
    /\ UNCHANGED lock_rest

\* put, get: the engine call returns, the temporary guard is dropped.
LockRelease(t) ==
    /\ conc.on /\ conc.th[t].pc = "locked" /\ conc.th[t].op \in {"put", "get"}
    /\ conc' = [conc EXCEPT !.writers = @ \ {t}, !.readers = @ \ {t}, !.th[t].pc = "done"]
    /\ UNCHANGED lock_rest

\* with_metrics: f(engine.metrics()) is entered, the read guard alive.
EnterF(t) ==
    /\ conc.on /\ conc.th[t].pc = "locked" /\ conc.th[t].op = "with_metrics"
    /\ conc' = [conc EXCEPT !.th[t].pc = "in_f"]
    /\ UNCHANGED lock_rest

\* f reads the metrics and returns; with_metrics drops its guard and returns.
ReturnF(t) ==
    /\ conc.on /\ conc.th[t].pc = "in_f" /\ conc.th[t].f = "metrics"
    /\ conc' = [conc EXCEPT !.readers = @ \ {t}, !.th[t].pc = "done"]
    /\ UNCHANGED lock_rest

\* f calls get or put of the wrapper: a second inner.read(), or inner.write(),
\* on the thread that holds the read guard of with_metrics. A write is
\* granted when no guard is left, that one included. When the call returns
\* its guard is dropped, f returns and with_metrics drops its own.
NestedCall(t) ==
    /\ conc.on /\ conc.th[t].pc = "in_f" /\ conc.th[t].f \in {"get", "put"}
    /\ IF conc.th[t].f = "get" THEN read_granted ELSE can_write(conc)
    /\ conc' = [conc EXCEPT !.readers = @ \ {t}, !.th[t].pc = "done"]
    /\ UNCHANGED lock_rest

\* The lock call inside f panics where the platform detects that the thread
\* holds the lock already; the unwinding drops the guard of with_metrics.
NestedPanic(t) ==
    /\ conc.on /\ conc.th[t].pc = "in_f" /\ conc.th[t].f \in {"get", "put"}
    /\ conc.detects
    /\ conc' = [conc EXCEPT !.readers = @ \ {t}, !.th[t].pc = "panicked"]
    /\ UNCHANGED lock_rest

\* The steps of thread t that wait for the lock, and those that do not.
LockAcquire(t) == LockWrite(t) \/ LockRead(t) \/ NestedCall(t)
LockRun(t) == LockCall(t) \/ LockRelease(t) \/ EnterF(t) \/ ReturnF(t) \/ NestedPanic(t)

NextLock ==
    \/ \E t \in Threads : LockCall(t)
    \/ \E t \in Threads : LockWrite(t)
    \/ \E t \in Threads : LockRead(t)
    \/ \E t \in Threads : LockRelease(t)
    \/ \E t \in Threads : EnterF(t)
    \/ \E t \in Threads : ReturnF(t)
    \/ \E t \in Threads : NestedCall(t)
    \/ \E t \in Threads : NestedPanic(t)

\* Every thread keeps running, and the lock is fair: a thread that could be
\* granted the lock again and again is granted it.
SpecLock ==
    /\ InitLock
    /\ [][NextLock]_vars
    /\ \A t \in Threads : WF_vars(LockRun(t)) /\ SF_vars(LockAcquire(t))

\* ------------------------------------------------------------- BloomFilter
\* bloom.bits is the Vec<u8>, bloom.h holds the two SipHash values of every
\* key (DefaultHasher with seed 0 and seed 0xDEADBEEF): any function of the
\* key, the same for insert and may_contain. bloom.inserted is the set of
\* keys whose insert has returned, bloom.panicked whether a call panicked.
BloomBits == 0..MaxBits
BloomHashes == {0, 3}
HashValues == {0, 3, 8, HashSpace - 3}

clamp(x, lo, hi) == IF x < lo THEN lo ELSE IF x > hi THEN hi ELSE x
div_ceil(a, b) == (a + b - 1) \div b

\* BloomFilter::with_params
with_params(num_bits, num_hashes) ==
    [bits |-> [i \in 1..div_ceil(num_bits, 8) |-> 0],
     num_bits |-> num_bits,
     num_hashes |-> clamp(num_hashes, 2, 16),
     count |-> 0]

hash_with_seed(b, key, seed) == IF seed = "0" THEN b.h[key][1] ELSE b.h[key][2]

\* hash_index: h1.wrapping_add(i.wrapping_mul(h2)) % num_bits; num_bits is
\* not 0 where it is used.
hash_index(b, key, i) ==
    LET h1 == hash_with_seed(b, key, "0")
        h2 == hash_with_seed(b, key, "0xDEADBEEF")
        combined == (h1 + ((i * h2) % HashSpace)) % HashSpace
    IN  combined % b.num_bits

\* A statement that stores the mask instead of or-ing it into the byte.
store_mask(byte, bit_offset) == 2 ^ bit_offset
\* byte | (1 << bit_offset)
or_mask(byte, bit_offset) ==
    IF (byte \div (2 ^ bit_offset)) % 2 = 1 THEN byte ELSE byte + 2 ^ bit_offset
\* byte & (1 << bit_offset) == 0
bit_clear(byte, bit_offset) == (byte \div (2 ^ bit_offset)) % 2 = 0

\* The loop of insert: for i in 0..num_hashes, from iteration i on.
RECURSIVE InsertLoop(_, _, _, _)
InsertLoop(b, bits, key, i) ==
    IF i >= b.num_hashes THEN bits
    ELSE LET bit_index == hash_index(b, key, i)
             byte_index == bit_index \div 8
             bit_offset == bit_index % 8
         IN  InsertLoop(b, [bits EXCEPT ![byte_index + 1] = or_mask(@, bit_offset)],
                        key, i + 1)

\* The loop of may_contain, from iteration i on.
RECURSIVE MayContainLoop(_, _, _)
MayContainLoop(b, key, i) ==
    IF i >= b.num_hashes THEN TRUE
    ELSE LET bit_index == hash_index(b, key, i)
             byte_index == bit_index \div 8
             bit_offset == bit_index % 8
         IN  IF bit_clear(b.bits[byte_index + 1], bit_offset) THEN FALSE
             ELSE MayContainLoop(b, key, i + 1)

may_contain(b, key) == MayContainLoop(b, key, 0)

InitBloom ==
    /\ EngineIdle
    /\ replay = Off /\ conc = Off /\ compact = Off /\ planner = Off /\ ttl = Off /\ wal = Off
    /\ \E num_bits \in BloomBits, num_hashes \in BloomHashes,
          h \in [Keys -> HashValues \X HashValues] :
           LET f == with_params(num_bits, num_hashes)
           IN  bloom = [on |-> TRUE, bits |-> f.bits, num_bits |-> f.num_bits,
                        num_hashes |-> f.num_hashes, count |-> f.count,
                        h |-> h, inserted |-> {}, panicked |-> FALSE]

\* bf.insert(key). With num_bits = 0 the `%` of hash_index panics before any
\* bit is set.
BloomInsert(key) ==
    /\ bloom.on /\ ~bloom.panicked
    /\ bloom.count < MaxInserts
    /\ bloom' = IF bloom.num_bits = 0
                THEN [bloom EXCEPT !.panicked = TRUE]
                ELSE [bloom EXCEPT !.bits = InsertLoop(bloom, bloom.bits, key, 0),
                                   !.count = @ + 1,
                                   !.inserted = @ \cup {key}]
    /\ UNCHANGED << engine_vars, replay, conc, compact, planner, ttl, wal >>

NextBloom == \E key \in Keys : BloomInsert(key)

SpecBloom == InitBloom /\ [][NextBloom]_vars

\* -------------------------------------------------------- compact_sstables
\* compact.src lists the input tables oldest first; a table holds, for some
\* of the keys, a put of a value or a delete. compact.tables is the same
\* input as the Vec<Vec<(Key, Value)>> the function takes, each table in key
\* order, where a delete is written as the pair (key, empty value).
CompValues == Values \cup {<<2>>}
Absent == [kind |-> "absent", value |-> << >>]
TableEntries ==
    {Absent} \cup [kind : {"delete"}, value : {<< >>}] \cup [kind : {"put"}, value : CompValues]
SrcTables == [Keys -> TableEntries]

RECURSIVE PairsOf(_, _)
PairsOf(src, ks) ==
    IF ks = << >> THEN << >>
    ELSE LET k == Head(ks)
         IN  (IF src[k].kind = "absent" THEN << >> ELSE << <<k, src[k].value>> >>)
                 \o PairsOf(src, Tail(ks))

as_pairs(src) == PairsOf(src, KeysInOrder(Keys))

\* A merge in which the first table that holds a key wins.
merge_keep_first(merged, key, value) ==
    IF key \in DOMAIN merged THEN merged ELSE MapInsert(merged, key, value)
\* merged.insert(key, value)
merge_insert(merged, key, value) == MapInsert(merged, key, value)

\* for (key, value) in sstable { merged.insert(key, value); }
RECURSIVE MergeTable(_, _)
MergeTable(merged, sstable) ==
    IF sstable = << >> THEN merged
    ELSE MergeTable(merge_insert(merged, Head(sstable)[1], Head(sstable)[2]), Tail(sstable))

\* for sstable in sstables { .. }
RECURSIVE MergeAll(_, _)
MergeAll(merged, sstables) ==
    IF sstables = << >> THEN merged
    ELSE MergeAll(MergeTable(merged, Head(sstables)), Tail(sstables))

\* .filter(|(_k, v)| !v.is_empty())
keep_pair(key, value) == value # << >>

RECURSIVE FilterPairs(_, _)
FilterPairs(merged, ks) ==
    IF ks = << >> THEN << >>
    ELSE LET k == Head(ks)
         IN  (IF keep_pair(k, merged[k]) THEN << <<k, merged[k]>> >> ELSE << >>)
                 \o FilterPairs(merged, Tail(ks))

compact_sstables(sstables) ==
    LET merged == MergeAll(<< >>, sstables)
    IN  FilterPairs(merged, KeysInOrder(DOMAIN merged))

InitCompact ==
    /\ EngineIdle
    /\ replay = Off /\ conc = Off /\ bloom = Off /\ planner = Off /\ ttl = Off /\ wal = Off
    /\ \E n \in 0..MaxTables : \E src \in [1..n -> SrcTables] :
           compact = [on |-> TRUE, src |-> src,
                      tables |-> [i \in 1..n |-> as_pairs(src[i])],
                      done |-> FALSE, out |-> << >>]

Compact ==
    /\ compact.on /\ ~compact.done
    /\ compact' = [compact EXCEPT !.done = TRUE, !.out = compact_sstables(compact.tables)]
    /\ UNCHANGED << engine_vars, replay, conc, bloom, planner, ttl, wal >>

NextCompact == Compact

SpecCompact == InitCompact /\ [][NextCompact]_vars

\* ------------------------------------------------------- select_compaction
\* planner.sstables is the slice of SStableInfo (id and size; the planner
\* reads nothing else), planner.out the Option<Vec<usize>> returned.
MiB == 1024 * 1024
TierBase == 4 * MiB
\* Sizes of tier 0 (three of them), tier 1 and tier 2 under size_ratio 10.
InfoSizes == {0, MiB, TierBase, TierBase + 1, 10 * TierBase + 1}
InfoIds == {0, 1, 2, 7}
Thresholds == {1, 2}
SizeRatios == {10}

\* A loop whose upper bounds are exclusive.
RECURSIVE TierLoopExclusive(_, _, _, _)
TierLoopExclusive(size, tier, upper_bound, base) ==
    IF size >= upper_bound THEN TierLoopExclusive(size, tier + 1, upper_bound * base, base)
    ELSE tier

\* while size > upper_bound { tier += 1; upper_bound *= base; }
RECURSIVE TierLoop(_, _, _, _)
TierLoop(size, tier, upper_bound, base) ==
    IF size > upper_bound THEN TierLoop(size, tier + 1, upper_bound * base, base)
    ELSE tier

tier_for_size(self, size) ==
    IF size = 0 THEN 0 ELSE TierLoop(size, 0, TierBase, self.size_ratio)

\* The first loop: tiers maps a tier to the positions (idx of enumerate) of
\* its tables, in slice order.
RECURSIVE GroupByTier(_, _, _, _)
GroupByTier(self, sstables, idx, tiers) ==
    IF idx >= Len(sstables) THEN tiers
    ELSE LET tier == tier_for_size(self, sstables[idx + 1].size)
             old == IF tier \in DOMAIN tiers THEN tiers[tier] ELSE << >>
         IN  GroupByTier(self, sstables, idx + 1,
                         [x \in (DOMAIN tiers) \cup {tier} |->
                              IF x = tier THEN Append(old, idx) ELSE tiers[x]])

\* The second loop: tiers.iter() in ascending order; todo are the tiers not
\* yet visited.
RECURSIVE FirstFull(_, _, _)
FirstFull(self, tiers, todo) ==
    IF todo = {} THEN None
    ELSE LET tier == CHOOSE x \in todo : \A y \in todo : x <= y
         IN  IF Len(tiers[tier]) >= self.threshold THEN Some(tiers[tier])
             ELSE FirstFull(self, tiers, todo \ {tier})

select_compaction(self, sstables) ==
    IF sstables = << >> THEN None
    ELSE LET tiers == GroupByTier(self, sstables, 0, << >>)
         IN  FirstFull(self, tiers, DOMAIN tiers)

InfoLists ==
    {l \in UNION {[1..n -> [id : InfoIds, size : InfoSizes]] : n \in 0..MaxInfos} :
        \A i, j \in 1..Len(l) : i # j => l[i].id # l[j].id}

InitPlanner ==
    /\ EngineIdle
    /\ replay = Off /\ conc = Off /\ bloom = Off /\ compact = Off /\ ttl = Off /\ wal = Off
    /\ \E threshold \in Thresholds, size_ratio \in SizeRatios, l \in InfoLists :
           planner = [on |-> TRUE, threshold |-> threshold, size_ratio |-> size_ratio,
                      sstables |-> l, done |-> FALSE, out |-> None]

SelectCompaction ==
    /\ planner.on /\ ~planner.done
    /\ planner' = [planner EXCEPT !.done = TRUE,
                                  !.out = select_compaction(planner, planner.sstables)]
    /\ UNCHANGED << engine_vars, replay, conc, bloom, compact, ttl, wal >>

NextPlanner == SelectCompaction

SpecPlanner == InitPlanner /\ [][NextPlanner]_vars

\* ------------------------------------------------ the TtlIndex and reads
\* The engine together with a TtlIndex. now is the wall clock SystemTime::now()
\* reads, in milliseconds; expirations is TtlIndex.expirations. stored
\* remembers, for a key stored with a TTL, the clock of that call and its
\* ttl_ms.

MaxClock == 2
TtlMs == {0, 2}
TtlIndex_new == [k \in {} |-> 0]

\* TtlIndex::now_ms, the wall clock being clock.
now_ms(clock) == clock

\* u64 arithmetic. The model keeps a u64 in 0..U64Max; a + b above U64Max is
\* the overflow of the addition, which wraps in a build without overflow
\* checks and panics in a build with them.
U64Max == 15
add_overflows(a, b) == a + b > U64Max
wrapping_add(a, b) == (a + b) % (U64Max + 1)

\* TtlIndex::set_ttl, where it returns.
set_ttl(expirations, key, ttl_ms, clock) ==
    LET expires_at == wrapping_add(now_ms(clock), ttl_ms)
    IN  MapInsert(expirations, key, expires_at)

\* An is_expired that spares the millisecond of the expiration itself.
is_expired_strict(expirations, key, clock) ==
    IF key \in DOMAIN expirations
    THEN now_ms(clock) > expirations[key]
    ELSE FALSE

\* TtlIndex::is_expired
is_expired(expirations, key, clock) ==
    IF key \in DOMAIN expirations
    THEN now_ms(clock) >= expirations[key]
    ELSE FALSE

\* A data_dir opened for the first time, a fresh TtlIndex beside the engine.
InitTtl ==
    /\ up = TRUE
    /\ memtable_max_size \in MemSizes
    /\ memtable = MemTable_new
    /\ wal_file = << >>
    /\ wal_buf = << >>
    /\ flush_count = 0
    /\ sst_files = {}
    /\ sst_made = {}
    /\ ref = [k \in Keys |-> Never]
    /\ dirty = {}
    /\ last = [NoCall EXCEPT !.op = "open"]
    /\ sess = NewSession(FALSE)
    /\ ops = 0 /\ faults = 0 /\ crashes = 0
    /\ replay = Off /\ conc = Off /\ bloom = Off /\ compact = Off /\ planner = Off /\ wal = Off
    /\ ttl = [on |-> TRUE, now |-> 0, expirations |-> TtlIndex_new,
              stored |-> [k \in Keys |-> None], op |-> "none", key |-> << >>,
              at |-> 0, out |-> None]

ttl_rest == << up, memtable_max_size, ref, dirty, last, sess, faults, crashes,
               replay, conc, bloom, compact, planner, wal >>

\* put_with_ttl(key, value, ttl_ms): the put of the engine, every I/O step
\* succeeding, and then the TTL of the key recorded in the index.
PutWithTtl(key, value, ttl_ms) ==
    /\ ttl.on /\ up
    /\ ops < MaxOps
    /\ LET w == [file |-> wal_file, buf |-> wal_buf]
           r == write(memtable, w, flush_count, memtable_max_size, "put", key, value,
                      encode_put(key, value), NoFault)
       IN  /\ r.hit /\ r.ok
           /\ memtable' = r.mt
           /\ wal_file' = r.file
           /\ wal_buf' = r.buf
           /\ flush_count' = r.fc
           /\ sst_files' = IF r.flushed
                           THEN sst_files \cup flush_from_memtable_files(flush_count, MemTable_scan(r.mid))
                           ELSE sst_files
           /\ sst_made' = IF r.flushed THEN sst_made \cup {flush_count} ELSE sst_made
    /\ ops' = ops + 1
    /\ ttl' = [ttl EXCEPT !.expirations = set_ttl(ttl.expirations, key, ttl_ms, ttl.now),
                          !.stored[key] = Some([at |-> ttl.now, ttl_ms |-> ttl_ms]),
                          !.op = "put_with_ttl", !.key = key, !.at = ttl.now]
    /\ UNCHANGED ttl_rest

\* A millisecond of wall-clock time passes.
Tick ==
    /\ ttl.on
    /\ ttl.now < MaxClock
    /\ ttl' = [ttl EXCEPT !.now = @ + 1]
    /\ UNCHANGED engine_vars
    /\ UNCHANGED << replay, conc, bloom, compact, planner, wal >>

\* engine.get(key), called when the wall clock reads ttl.now.
TtlGet(key) ==
    /\ ttl.on /\ up
    /\ ttl' = [ttl EXCEPT !.op = "get", !.key = key, !.at = ttl.now,
                          !.out = Oblivion_get(key)]
    /\ UNCHANGED engine_vars
    /\ UNCHANGED << replay, conc, bloom, compact, planner, wal >>

NextTtl ==
    \/ \E key \in Keys, value \in Values, ttl_ms \in TtlMs : PutWithTtl(key, value, ttl_ms)
    \/ Tick
    \/ \E key \in Keys : TtlGet(key)

SpecTtl == InitTtl /\ [][NextTtl]_vars

\* ------------------------------------------------- the MemTable on its own
\* A MemTable driven directly by insert, delete and clear; memtable is the
\* table, ref the latest call on each key since the last clear, last the call
\* just made and ops the number of calls.

MaxMtOps == 4
MtKeys == {<< >>, <<1>>, <<1, 2>>}
MtValues == {<< >>, <<1>>, <<1, 2>>}

InitMemTable ==
    /\ up = FALSE
    /\ memtable_max_size = 0
    /\ memtable = MemTable_new
    /\ wal_file = << >>
    /\ wal_buf = << >>
    /\ flush_count = 0
    /\ sst_files = {}
    /\ sst_made = {}
    /\ ref = [k \in MtKeys |-> Never]
    /\ dirty = {}
    /\ last = NoCall
    /\ sess = NewSession(FALSE)
    /\ ops = 0 /\ faults = 0 /\ crashes = 0
    /\ LibIdle

mt_rest == << up, memtable_max_size, wal_file, wal_buf, flush_count, sst_files, sst_made,
              dirty, sess, faults, crashes, lib_vars >>

\* memtable.insert(key, value)
MtInsert(key, value) ==
    /\ ~up /\ LibIdle
    /\ ops < MaxMtOps
    /\ memtable' = MemTable_insert(memtable, key, value)
    /\ ref' = [ref EXCEPT ![key] = [st |-> "put", val |-> value]]
    /\ last' = [NoCall EXCEPT !.op = "insert", !.key = key, !.value = value]
    /\ ops' = ops + 1
    /\ UNCHANGED mt_rest

\* memtable.delete(key)
MtDelete(key) ==
    /\ ~up /\ LibIdle
    /\ ops < MaxMtOps
    /\ memtable' = MemTable_delete(memtable, key)
    /\ ref' = [ref EXCEPT ![key] = [st |-> "delete", val |-> << >>]]
    /\ last' = [NoCall EXCEPT !.op = "delete", !.key = key]
    /\ ops' = ops + 1
    /\ UNCHANGED mt_rest

\* memtable.clear()
MtClear ==
    /\ ~up /\ LibIdle
    /\ ops < MaxMtOps
    /\ memtable' = MemTable_clear(memtable)
    /\ ref' = [k \in MtKeys |-> Never]
    /\ last' = [NoCall EXCEPT !.op = "clear"]
    /\ ops' = ops + 1
    /\ UNCHANGED mt_rest

NextMemTable ==
    \/ \E key \in MtKeys, value \in MtValues : MtInsert(key, value)
    \/ \E key \in MtKeys : MtDelete(key)
    \/ MtClear

SpecMemTable == InitMemTable /\ [][NextMemTable]_vars

\* -------------------------------------------- the WriteAheadLog on its own
\* A WriteAheadLog opened on a new path and used directly: wal_file and
\* wal_buf are its file and its BufWriter. wal.live says the process runs,
\* wal.applied is the MemTable that insert / delete build from the calls that
\* returned Ok since the log was created or last truncated, wal.all_ok says
\* that every call since then returned Ok, wal.gen counts the truncates that
\* returned Ok, wal.pre / wal.pre_buf are the file and the buffer when the
\* latest truncate began.

MaxWalOps == 3
AppendFaults == [step : {"wal_flush"}, n : TornCuts] \cup [step : {"wal_sync"}, n : {0}]
TruncateFaults ==
    [step : {"trunc_flush"}, n : TornCuts] \cup [step : {"trunc_open", "trunc_reopen"}, n : {0}]

InitWal ==
    /\ EngineIdle
    /\ replay = Off /\ conc = Off /\ bloom = Off /\ compact = Off /\ planner = Off /\ ttl = Off
    /\ wal = [on |-> TRUE, live |-> TRUE, applied |-> MemTable_new, all_ok |-> TRUE,
              gen |-> 0, op |-> "open", ok |-> TRUE, pre |-> << >>, pre_buf |-> << >>,
              n |-> 0, nfaults |-> 0]

wal_rest == << up, memtable_max_size, memtable, flush_count, sst_files, ref, dirty, last,
               sess, sst_made, ops, faults, crashes, replay, conc, bloom, compact,
               planner, ttl >>

\* wal.append_put(key, value) (op = "put") or wal.append_delete(key).
LogAppend(op, key, value, encoded, fault) ==
    /\ wal.on /\ wal.live
    /\ wal.n < MaxWalOps
    /\ fault.step # "none" => wal.nfaults < MaxFaults
    /\ LET a == wal_append([file |-> wal_file, buf |-> wal_buf], encoded, fault)
       IN  /\ a.hit
           /\ wal_file' = a.file
           /\ wal_buf' = a.buf
           /\ wal' = [wal EXCEPT !.applied = IF a.ok THEN apply(@, op, key, value) ELSE @,
                                 !.all_ok = @ /\ a.ok,
                                 !.op = op, !.ok = a.ok, !.n = @ + 1,
                                 !.nfaults = IF fault.step = "none" THEN @ ELSE @ + 1]
    /\ UNCHANGED wal_rest

LogAppendPut(key, value) ==
    \E fault \in {NoFault} \cup AppendFaults :
        LogAppend("put", key, value, encode_put(key, value), fault)

LogAppendDelete(key) ==
    \E fault \in {NoFault} \cup AppendFaults :
        LogAppend("delete", key, << >>, encode_delete(key), fault)

\* wal.truncate(), returning Ok or the error of the step that failed.
LogTruncate ==
    /\ wal.on /\ wal.live
    /\ wal.n < MaxWalOps
    /\ \E fault \in {NoFault} \cup TruncateFaults :
         LET t == wal_truncate([file |-> wal_file, buf |-> wal_buf], fault)
         IN  /\ t.hit
             /\ wal_file' = t.file
             /\ wal_buf' = t.buf
             /\ wal' = [wal EXCEPT !.applied = IF t.ok THEN MemTable_new ELSE @,
                                   !.all_ok = t.ok,
                                   !.gen = IF t.ok THEN @ + 1 ELSE @,
                                   !.op = "truncate", !.ok = t.ok, !.n = @ + 1,
                                   !.pre = wal_file, !.pre_buf = wal_buf]
    /\ UNCHANGED wal_rest

\* The process terminates inside wal.truncate(): after the step a fault names
\* would have failed at, or after the last step. The file keeps its bytes.
LogTruncateCrash ==
    /\ wal.on /\ wal.live
    /\ wal.n < MaxWalOps
    /\ \E fault \in {NoFault} \cup TruncateFaults :
         LET t == wal_truncate([file |-> wal_file, buf |-> wal_buf], fault)
         IN  /\ t.hit
             /\ wal_file' = t.file
             /\ wal_buf' = << >>
             /\ wal' = [wal EXCEPT !.live = FALSE, !.all_ok = FALSE,
                                   !.op = "truncate_crash", !.ok = FALSE, !.n = @ + 1,
                                   !.pre = wal_file, !.pre_buf = wal_buf]
    /\ UNCHANGED wal_rest

NextWal ==
    \/ \E key \in Keys, value \in Values : LogAppendPut(key, value)
    \/ \E key \in Keys : LogAppendDelete(key)
    \/ LogTruncate
    \/ LogTruncateCrash

SpecWal == InitWal /\ [][NextWal]_vars

\* ------------------------------------------------- the TtlIndex on its own
\* A TtlIndex used directly: ttl.expirations is its map, ttl.now the wall
\* clock, ttl.op the latest call, ttl.out what purge_expired returned and
\* ttl.before the map as that call found it. ttl.latest is, per key, the
\* expiration the latest set_ttl / set_expiration asked for, None when the
\* key was never set or its entry was removed or purged since.

MaxTtlOps == 3
ExpTimes == {0, 1, 3}

\* TtlIndex::set_expiration
set_expiration(expirations, key, expires_at_ms) == MapInsert(expirations, key, expires_at_ms)

\* TtlIndex::remove_ttl
remove_ttl(expirations, key) ==
    [x \in (DOMAIN expirations) \ {key} |-> expirations[x]]

\* TtlIndex::remaining_ttl
remaining_ttl(expirations, key, clock) ==
    IF key \in DOMAIN expirations
    THEN LET expires_at == expirations[key]
             now == now_ms(clock)
         IN  Some(IF now >= expires_at THEN 0 ELSE expires_at - now)
    ELSE None

\* TtlIndex::get_expiration
get_expiration(expirations, key) ==
    IF key \in DOMAIN expirations THEN Some(expirations[key]) ELSE None

\* TtlIndex::len
TtlIndex_len(expirations) == Cardinality(DOMAIN expirations)

RECURSIVE FilterExpired(_, _, _)
FilterExpired(expirations, ks, now) ==
    IF ks = << >> THEN << >>
    ELSE IF now >= expirations[Head(ks)]
         THEN <<Head(ks)>> \o FilterExpired(expirations, Tail(ks), now)
         ELSE FilterExpired(expirations, Tail(ks), now)

\* A collect_expired that spares the entries expiring at this millisecond.
collect_expired_strict(expirations, clock) ==
    FilterExpired(expirations, KeysInOrder(DOMAIN expirations), now_ms(clock) - 1)

\* TtlIndex::collect_expired
collect_expired(expirations, clock) ==
    FilterExpired(expirations, KeysInOrder(DOMAIN expirations), now_ms(clock))

RECURSIVE RemoveEach(_, _)
RemoveEach(expirations, expired) ==
    IF expired = << >> THEN expirations
    ELSE RemoveEach(remove_ttl(expirations, Head(expired)), Tail(expired))

\* TtlIndex::purge_expired
purge_expired(expirations, clock) ==
    LET expired == collect_expired(expirations, clock)
        count == Len(expired)
    IN  [expirations |-> RemoveEach(expirations, expired), count |-> count]

InitTtlIndex ==
    /\ EngineIdle
    /\ replay = Off /\ conc = Off /\ bloom = Off /\ compact = Off /\ planner = Off /\ wal = Off
    /\ ttl = [on |-> TRUE, now |-> 0, expirations |-> TtlIndex_new,
              latest |-> [k \in Keys |-> None], op |-> "new", key |-> << >>,
              out |-> 0, before |-> TtlIndex_new, n |-> 0]

idx_rest == << engine_vars, replay, conc, bloom, compact, planner, wal >>

\* ttl.set_ttl(key, ttl_ms)
SetTtl(key, ttl_ms) ==
    /\ ttl.on /\ ttl.n < MaxTtlOps
    /\ ttl' = [ttl EXCEPT !.expirations = set_ttl(@, key, ttl_ms, ttl.now),
                          !.latest[key] = Some(ttl.now + ttl_ms),
                          !.op = "set_ttl", !.key = key, !.n = @ + 1]
    /\ UNCHANGED idx_rest

\* ttl.set_expiration(key, expires_at_ms)
SetExpiration(key, expires_at_ms) ==
    /\ ttl.on /\ ttl.n < MaxTtlOps
    /\ ttl' = [ttl EXCEPT !.expirations = set_expiration(@, key, expires_at_ms),
                          !.latest[key] = Some(expires_at_ms),
                          !.op = "set_expiration", !.key = key, !.n = @ + 1]
    /\ UNCHANGED idx_rest

\* ttl.remove_ttl(key)
RemoveTtl(key) ==
    /\ ttl.on /\ ttl.n < MaxTtlOps
    /\ ttl' = [ttl EXCEPT !.expirations = remove_ttl(@, key),
                          !.latest[key] = None,
                          !.op = "remove_ttl", !.key = key, !.n = @ + 1]
    /\ UNCHANGED idx_rest

\* ttl.purge_expired()
PurgeExpired ==
    /\ ttl.on /\ ttl.n < MaxTtlOps
    /\ LET r == purge_expired(ttl.expirations, ttl.now)
       IN  ttl' = [ttl EXCEPT !.expirations = r.expirations,
                              !.latest = [k \in Keys |->
                                            IF IsSome(@[k]) /\ Unwrap(@[k]) <= ttl.now
                                            THEN None ELSE @[k]],
                              !.out = r.count, !.before = ttl.expirations,
                              !.op = "purge_expired", !.key = << >>, !.n = @ + 1]
    /\ UNCHANGED idx_rest

\* A millisecond of wall-clock time passes between two calls.
IdxTick ==
    /\ ttl.on /\ ttl.now < MaxClock
    /\ ttl' = [ttl EXCEPT !.now = @ + 1, !.op = "tick", !.key = << >>]
    /\ UNCHANGED idx_rest

NextTtlIndex ==
    \/ \E key \in Keys, ttl_ms \in TtlMs : SetTtl(key, ttl_ms)
    \/ \E key \in Keys, e \in ExpTimes : SetExpiration(key, e)
    \/ \E key \in Keys : RemoveTtl(key)
    \/ PurgeExpired
    \/ IdxTick

SpecTtlIndex == InitTtlIndex /\ [][NextTtlIndex]_vars

\* ------------------------------------------------- set_ttl over all of u64
\* A TtlIndex whose set_ttl is called with any u64 as ttl_ms, the largest
\* included. ttl.latest remembers, for a key, the clock and the ttl_ms of the
\* latest set_ttl that returned.
WideTtlMs == {0, 1, U64Max - 1, U64Max}

InitWideTtl ==
    /\ EngineIdle
    /\ replay = Off /\ conc = Off /\ bloom = Off /\ compact = Off /\ planner = Off /\ wal = Off
    /\ ttl = [on |-> TRUE, now |-> 0, expirations |-> TtlIndex_new,
              latest |-> [k \in Keys |-> None], panicked |-> FALSE, n |-> 0]

\* ttl.set_ttl(key, ttl_ms): now_ms() + ttl_ms fits in a u64, or it wraps.
WideSetTtl(key, ttl_ms) ==
    /\ ttl.on /\ ~ttl.panicked /\ ttl.n < MaxTtlOps
    /\ ttl' = [ttl EXCEPT !.expirations = set_ttl(@, key, ttl_ms, ttl.now),
                          !.latest[key] = Some([at |-> ttl.now, ttl_ms |-> ttl_ms]),
                          !.n = @ + 1]
    /\ UNCHANGED idx_rest

\* ttl.set_ttl(key, ttl_ms) in a build with overflow checks, the sum not
\* fitting: the addition panics before the map is touched.
WideSetTtlOverflow(key, ttl_ms) ==
    /\ ttl.on /\ ~ttl.panicked /\ ttl.n < MaxTtlOps
    /\ add_overflows(now_ms(ttl.now), ttl_ms)
    /\ ttl' = [ttl EXCEPT !.panicked = TRUE, !.n = @ + 1]
    /\ UNCHANGED idx_rest

\* A millisecond of wall-clock time passes.
WideTick ==
    /\ ttl.on /\ ~ttl.panicked /\ ttl.now < MaxClock
    /\ ttl' = [ttl EXCEPT !.now = @ + 1]
    /\ UNCHANGED idx_rest

NextWideTtl ==
    \/ \E key \in Keys, ttl_ms \in WideTtlMs : WideSetTtl(key, ttl_ms)
    \/ \E key \in Keys, ttl_ms \in WideTtlMs : WideSetTtlOverflow(key, ttl_ms)
    \/ WideTick

SpecWideTtl == InitWideTtl /\ [][NextWideTtl]_vars

\* ------------------------------------------------------------ tier_for_size
\* tier_for_size applied to two table sizes under one strategy. The sizes lie
\* on and next to the upper bounds of the tiers, below 400 MiB.

TierRatios == {2, 10}
TierExps == 0..2
TierSizes ==
    {s \in {0, 1, MiB}
              \cup {TierBase * (r ^ t) + d : r \in TierRatios, t \in TierExps, d \in {-1, 0, 1}} :
        s < 100 * TierBase}

InitTier ==
    /\ EngineIdle
    /\ replay = Off /\ conc = Off /\ bloom = Off /\ compact = Off /\ ttl = Off /\ wal = Off
    /\ \E size_ratio \in TierRatios, a \in TierSizes, b \in TierSizes :
           planner = [on |-> TRUE, threshold |-> 4, size_ratio |-> size_ratio,
                      sizes |-> <<a, b>>, done |-> FALSE, tiers |-> << >>]

\* strategy.tier_for_size(size) for each of the two sizes.
TierForSize ==
    /\ planner.on /\ ~planner.done
    /\ planner' = [planner EXCEPT !.done = TRUE,
                                  !.tiers = [i \in 1..2 |-> tier_for_size(planner, planner.sizes[i])]]
    /\ UNCHANGED << engine_vars, replay, conc, bloom, compact, ttl, wal >>

NextTier == TierForSize

SpecTier == InitTier /\ [][NextTier]_vars

\* ------------------------------------------------- tier_for_size, by steps
\* One call of tier_for_size, one loop iteration per step. tier is a usize:
\* the model keeps it in 0..MaxTier, and tier += 1 at MaxTier is the overflow
\* of the counter, which wraps to 0 in a build without overflow checks and
\* panics in a build with them. SizeTieredCompaction::new takes any usize as
\* size_ratio.
MaxTier == 15
LoopRatios == {0, 1, 2, 10}
LoopSizes == {0, TierBase, TierBase + 1, 2 * TierBase + 1, 10 * TierBase + 1}

InitTierLoop ==
    /\ EngineIdle
    /\ replay = Off /\ conc = Off /\ bloom = Off /\ compact = Off /\ ttl = Off /\ wal = Off
    /\ \E size_ratio \in LoopRatios, size \in LoopSizes :
           planner = [on |-> TRUE, threshold |-> 4, size_ratio |-> size_ratio, size |-> size,
                      pc |-> "call", tier |-> 0, upper_bound |-> 0]

loop_rest == << engine_vars, replay, conc, bloom, compact, ttl, wal >>

\* if size == 0 { return 0; } let mut tier = 0; let mut upper_bound = 4 MiB;
TierEnter ==
    /\ planner.on /\ planner.pc = "call"
    /\ planner' = IF planner.size = 0
                  THEN [planner EXCEPT !.pc = "done"]
                  ELSE [planner EXCEPT !.pc = "loop", !.upper_bound = TierBase]
    /\ UNCHANGED loop_rest

\* while size > upper_bound { tier += 1; upper_bound *= base; }
TierIterate ==
    /\ planner.on /\ planner.pc = "loop"
    /\ planner.size > planner.upper_bound
    /\ planner.tier < MaxTier
    /\ planner' = [planner EXCEPT !.tier = @ + 1, !.upper_bound = @ * planner.size_ratio]
    /\ UNCHANGED loop_rest

\* tier += 1 on the largest usize, overflow checks off: the counter wraps.
TierWrap ==
    /\ planner.on /\ planner.pc = "loop"
    /\ planner.size > planner.upper_bound
    /\ planner.tier = MaxTier
    /\ planner' = [planner EXCEPT !.tier = 0, !.upper_bound = @ * planner.size_ratio]
    /\ UNCHANGED loop_rest

\* tier += 1 on the largest usize, overflow checks on: the thread panics.
TierOverflow ==
    /\ planner.on /\ planner.pc = "loop"
    /\ planner.size > planner.upper_bound
    /\ planner.tier = MaxTier
    /\ planner' = [planner EXCEPT !.pc = "panicked"]
    /\ UNCHANGED loop_rest

\* The loop condition is false: tier is returned.
TierReturn ==
    /\ planner.on /\ planner.pc = "loop"
    /\ ~(planner.size > planner.upper_bound)
    /\ planner' = [planner EXCEPT !.pc = "done"]
    /\ UNCHANGED loop_rest

NextTierLoop ==
    \/ TierEnter
    \/ TierIterate
    \/ TierWrap
    \/ TierOverflow
    \/ TierReturn

\* The call runs on its thread until it ends.
SpecTierLoop == InitTierLoop /\ [][NextTierLoop]_vars /\ WF_vars(NextTierLoop)

\* -------------------------------------------------------------- properties
\* What a last-writer-wins map holds for key k after the acknowledged calls.
Expected(k) == IF ref[k].st = "put" THEN Some(ref[k].val) ELSE None
ValidConfig == memtable_max_size >= 1
IsPrefix(p, q) == Len(p) <= Len(q) /\ SubSeq(q, 1, Len(p)) = p
\* The step is a call of put or delete.
IsCall == ops' = ops + 1
\* The MemTable of a call right after its insert / delete, before maybe_flush.
MidOf(c) == apply(memtable, c.op, c.key, c.value)
ScanSet(sc) == {sc[i] : i \in 1..Len(sc)}

\* C1: WAL durability. After a reopen, get(k) returns the value of the latest
\* acknowledged put of k, and None when the latest acknowledged mutation of k
\* is a delete, for every flush threshold >= 1. Keys with a call that returned
\* an error after the latest acknowledged one are left out: the claim says
\* nothing about them.
C1_WalDurability ==
    (up /\ last.op = "open" /\ ValidConfig)
        => \A k \in Keys \ dirty :
               ref[k].st # "never" => Oblivion_get(k) = Expected(k)

\* C2: the engine refines a last-writer-wins map. In one process, after calls
\* that all returned Ok, get(k) is what the reference map holds for every key
\* and scan() holds exactly the pairs of the reference map.
C2_RefinesLwwMap ==
    (up /\ faults = 0 /\ crashes = 0 /\ ValidConfig)
        => /\ \A k \in Keys : Oblivion_get(k) = Expected(k)
           /\ ScanSet(Oblivion_scan) = {<<k, ref[k].val>> : k \in {x \in Keys : ref[x].st = "put"}}

\* C3: flush preserves state. When a successful put or delete ran a flush,
\* get and scan after the call return what they returned right before the
\* flush, the pair just written included.
C3_FlushPreservesState ==
    [][(IsCall /\ last'.ok /\ last'.flushed /\ ValidConfig)
          => /\ MemTable_scan(memtable') = MemTable_scan(MidOf(last'))
             /\ \A k \in Keys : MemTable_get(memtable', k) = MemTable_get(MidOf(last'), k)]_vars

\* C4: tombstone shadowing. While the latest acknowledged mutation of k is a
\* delete (no put of k has returned Ok since), get(k) is None.
C4_TombstoneShadowing ==
    (up /\ ValidConfig)
        => \A k \in Keys : ref[k].st = "delete" => Oblivion_get(k) = None

\* C5: overwrite by last write. After put(k, v1) and then put(k, v2) both
\* returned Ok, get(k) is Some(v2) and k is one of the keys len() counts.
C5_OverwriteLastWrite ==
    [][(IsCall /\ ValidConfig
          /\ last.op = "put" /\ last.ok
          /\ last'.op = "put" /\ last'.ok /\ last'.key = last.key)
          => /\ MemTable_get(memtable', last'.key) = Some(last'.value)
             /\ last'.key \in DOMAIN memtable'.entries
             /\ MemTable_len(memtable') >= 1]_vars

StrictlyAscending(sc) ==
    \A i \in 1..(Len(sc) - 1) : KeyLess(sc[i][1], sc[i + 1][1])

\* C6: scan sorted. In every engine state scan() is strictly ascending by key
\* and holds no key whose latest acknowledged mutation is a delete (keys with
\* a later failed call left out).
C6_ScanSorted ==
    (up /\ ValidConfig)
        => /\ StrictlyAscending(Oblivion_scan)
           /\ \A i \in 1..Len(Oblivion_scan) :
                  LET k == Oblivion_scan[i][1]
                  IN  (k \in Keys \ dirty) => ref[k].st # "delete"

\* C7: a put or delete whose WAL append fails (flush or fsync error) returns
\* an error, leaves the MemTable as it was (entries and size_bytes), attempts
\* no flush (flush_count and the bytes the log held are untouched) and is not
\* acknowledged.
C7_WalAppendFailure ==
    [][(IsCall /\ last'.step \in {"wal_flush", "wal_sync"})
          => /\ ~last'.ok
             /\ memtable' = memtable
             /\ ~last'.flushed
             /\ flush_count' = flush_count
             /\ IsPrefix(wal_file, wal_file')
             /\ ref' = ref]_vars

\* C7 witness: a WAL append failed on a non-empty MemTable for a call whose
\* insert would have reached the flush threshold.
C7_Witness ==
    /\ up /\ ValidConfig
    /\ last.step \in {"wal_flush", "wal_sync"} /\ ~last.ok
    /\ ~MemTable_is_empty(memtable)
    /\ MidOf(last).size_bytes >= memtable_max_size

\* C8: whenever put returns an error the engine is in the pre-put state (the
\* MemTable as before the call, the log still holding what it held) or in a
\* post-flush state (empty MemTable, empty log).
C8_PutErrorStates ==
    [][(IsCall /\ last'.op = "put" /\ ~last'.ok /\ ValidConfig)
          => \/ /\ memtable' = memtable
                /\ IsPrefix(wal_file, wal_file' \o wal_buf')
             \/ /\ MemTable_is_empty(memtable')
                /\ memtable'.size_bytes = 0
                /\ wal_file' = << >> /\ wal_buf' = << >>]_vars

\* C9: a failure inside a flush leaves the engine pre-flush (the log still
\* holds what it held plus the record of the call, the MemTable is intact) or
\* post-flush (log empty, MemTable cleared): the log is never empty while the
\* MemTable still holds the entries.
C9_FlushFailureStates ==
    [][(IsCall /\ last'.flushed /\ ~last'.ok /\ ValidConfig)
          => \/ /\ memtable' = MidOf(last')
                /\ wal_file' # << >>
                /\ IsPrefix(wal_file, wal_file')
             \/ /\ MemTable_is_empty(memtable')
                /\ wal_file' = << >>]_vars

\* C10: torn tail. When a session was opened on a log with a partial trailing
\* record, had no failed call and no flush, and the process then crashed, the
\* next open recovers every key acknowledged in that session.
C10_TornTailRecovered ==
    [][(~up /\ up' /\ sess.torn /\ ~sess.flushed /\ ~sess.faulted /\ ValidConfig)
          => \A k \in sess.acked : MemTable_get(memtable', k) = Expected(k)]_vars

\* The well-formed records of a file that precede its first piece that is
\* not one, and the MemTable they give when applied in file order.
RECURSIVE GoodLen(_)
GoodLen(segs) ==
    IF segs = << >> \/ Head(segs).kind \notin {"put", "delete"} THEN 0
    ELSE 1 + GoodLen(Tail(segs))

RECURSIVE ApplyInOrder(_, _, _)
ApplyInOrder(segs, n, mt) ==
    IF n = 0 THEN mt
    ELSE LET m == ApplyInOrder(segs, n - 1, mt)
         IN  apply(m, segs[n].kind, segs[n].key, segs[n].value)

\* C11: recover applies the records in file order and stops at the first
\* record that is incomplete, fails its CRC32 or has an op_type other than 1
\* or 2: the MemTable it returns is the one given by exactly the records
\* before that point, whatever follows it.
C11_RecoverStopsAtFirstBad ==
    (replay.on /\ replay.done)
        => replay.memtable = ApplyInOrder(replay.segs, GoodLen(replay.segs), MemTable_new)

\* C11 witness: a file with a well-formed record, then a piece that stops
\* recover, then a well-formed record of another key, has been recovered.
C11_Witness ==
    /\ replay.on /\ replay.done
    /\ Len(replay.segs) = 3
    /\ replay.segs[1].kind = "put"
    /\ replay.segs[2].kind \in {"bad_op", "bad_crc", "torn"}
    /\ replay.segs[3].kind = "put"
    /\ replay.segs[3].key # replay.segs[1].key
    /\ MemTable_len(replay.memtable) = 1

\* The pairs held by the .sst files of data_dir.
Durable(files) == UNION {ScanSet(f.entries) : f \in files}

\* C12: flush ordering. In a flush the WAL is emptied only once the entries
\* being flushed are durable in an SSTable file, and the MemTable is cleared
\* only when the WAL truncate has returned success.
C12_FlushOrdering ==
    [][(IsCall /\ last'.flushed /\ ValidConfig)
          => /\ wal_file' = << >>
                    => ScanSet(MemTable_scan(MidOf(last'))) \subseteq Durable(sst_files')
             /\ memtable' # MidOf(last') => last'.ok]_vars

\* C19: SSTable ids increase over the whole life of a data_dir. On open the
\* flush counter is past every id already used by a completed flush, within a
\* session it changes only by +1 in a completed flush, and no flush uses the
\* id of an SSTable an earlier flush has produced.
C19_FlushIdsIncrease ==
    [][/\ (~up /\ up' /\ ValidConfig) => \A id \in sst_made : flush_count' > id
       /\ (up /\ up' /\ flush_count' # flush_count)
              => (last'.flushed /\ last'.ok /\ flush_count' = flush_count + 1)
       /\ (IsCall /\ last'.flushed) => flush_count \notin sst_made]_vars

\* The threads inside put / delete, between taking and dropping the lock.
Writing == {t \in Threads : conc.th[t].pc \in {"w_append", "w_load", "w_store",
                                                "w_flush", "w_clear", "w_unlock"}}
Reading == {t \in Threads : conc.th[t].pc \in {"r_read", "r_unlock"}}

\* C13: under ConcurrentOblivion, in every interleaving, a thread is inside
\* put or delete only while it alone holds the engine (no reader, no other
\* writer, so writes are totally ordered), and a thread inside get or scan
\* finds the engine exactly as the latest completed write left it: never a
\* part of a write, never the WAL truncated with the MemTable not yet cleared.
C13_SharedReadExclusiveWrite ==
    conc.on =>
        /\ Cardinality(Writing) <= 1
        /\ Writing # {} => Reading = {}
        /\ \A t \in Reading :
               /\ Snapshot = conc.committed
               /\ \A u \in Threads : conc.th[u].pc # "w_clear"

\* C13 witness: two readers hold the engine at the same time after a write
\* that ran a flush, while the third thread has not started.
C13_Witness ==
    /\ conc.on
    /\ Cardinality({t \in Threads : conc.th[t].pc = "r_read"}) >= 2
    /\ flush_count >= 1

\* C14: no lost updates. When every thread has put one key, the keys all
\* distinct and the flush threshold never reached, len() is the number of
\* threads and get of each key returns the value its thread wrote.
C14_NoLostUpdates ==
    (/\ conc.on
     /\ \A t \in Threads : conc.th[t].pc = "done" /\ conc.th[t].op = "put"
     /\ \A t, u \in Threads : t # u => conc.th[t].key # conc.th[u].key
     /\ flush_count = 0 /\ memtable.size_bytes < memtable_max_size)
        => /\ Oblivion_len = NumThreads
           /\ \A t \in Threads : Oblivion_get(conc.th[t].key) = Some(<<t>>)

\* C14 witness: every thread has returned from its put of a key of its own
\* and no flush has run.
C14_Witness ==
    /\ conc.on
    /\ \A t \in Threads : conc.th[t].pc = "done" /\ conc.th[t].op = "put"
    /\ Cardinality({conc.th[t].key : t \in Threads}) = NumThreads
    /\ flush_count = 0 /\ memtable.size_bytes < memtable_max_size

\* C15: Bloom no-false-negative. For every filter and at every point after
\* the insert of a key has returned, may_contain of that key is true,
\* whatever was inserted afterwards.
C15_BloomNoFalseNegative ==
    (bloom.on /\ ~bloom.panicked)
        => \A key \in bloom.inserted : may_contain(bloom, key)

\* C15 witness: a key was inserted, then a second key whose bits are not the
\* same, in a filter of two bytes that both have bits set and bits clear.
C15_Witness ==
    /\ bloom.on /\ bloom.count = 2 /\ bloom.inserted = Keys
    /\ bloom.num_bits > 8
    /\ \E i \in 0..(bloom.num_hashes - 1) :
           hash_index(bloom, <<1>>, i) # hash_index(bloom, <<2>>, i)
    /\ \A j \in 1..Len(bloom.bits) : bloom.bits[j] \notin {0, 255}

\* The newest input table that holds key k (0 when none does), and the value
\* it holds for k.
HoldsKey(table, k) == \E e \in ScanSet(table) : e[1] = k
Newest(tables, k) ==
    LET idx == {i \in 1..Len(tables) : HoldsKey(tables[i], k)}
    IN  IF idx = {} THEN 0 ELSE CHOOSE i \in idx : \A j \in idx : j <= i
ValueIn(table, k) == (CHOOSE e \in ScanSet(table) : e[1] = k)[2]

\* C16: compaction preserves state minus tombstones. The table returned by
\* compact_sstables holds exactly the keys whose newest entry among the
\* inputs (listed oldest to newest) is not a tombstone, each once and with
\* the value of that newest entry; a tombstone is a pair with an empty value.
C16_CompactionNewestWins ==
    (compact.on /\ compact.done)
        => /\ \A k \in Keys :
                  LET n == Newest(compact.tables, k)
                  IN  IF n # 0 /\ ValueIn(compact.tables[n], k) # << >>
                      THEN <<k, ValueIn(compact.tables[n], k)>> \in ScanSet(compact.out)
                      ELSE ~HoldsKey(compact.out, k)
           /\ Len(compact.out) = Cardinality({e[1] : e \in ScanSet(compact.out)})

\* C16 witness: of three tables, the newest overwrites the value an older one
\* holds for one key and is a tombstone for the other key, which an older
\* table holds with a value.
C16_Witness ==
    /\ compact.on /\ compact.done
    /\ Len(compact.src) = 3
    /\ compact.src[1][<<1>>] = [kind |-> "put", value |-> <<1>>]
    /\ compact.src[3][<<1>>] = [kind |-> "put", value |-> <<2>>]
    /\ compact.src[2][<<2>>] = [kind |-> "put", value |-> <<1>>]
    /\ compact.src[3][<<2>>].kind = "delete"
    /\ compact.out = << <<<<1>>, <<2>>>> >>

\* C17: a live key whose newest value is the empty byte string is kept by
\* compaction: when the newest input table that holds k holds it as a put of
\* the empty value, the output contains (k, empty value).
C17_EmptyValueRetained ==
    (compact.on /\ compact.done)
        => \A k \in Keys :
               LET n == Newest(compact.tables, k)
               IN  (n # 0 /\ compact.src[n][k] = [kind |-> "put", value |-> << >>])
                       => <<k, << >>>> \in ScanSet(compact.out)

\* The tables of tier n, and the lowest tier with `threshold` tables or more.
InTier(n) == {i \in 1..Len(planner.sstables) : tier_for_size(planner, planner.sstables[i].size) = n}
FullTiers == {n \in 0..2 : Cardinality(InTier(n)) >= planner.threshold /\ InTier(n) # {}}

\* C18: select_compaction returns None when no tier holds `threshold` tables
\* (the empty input included); otherwise it returns the SStableInfo.id of
\* exactly the tables of the lowest tier that does, whatever ids the tables
\* carry.
C18_SelectCompactionIds ==
    (planner.on /\ planner.done)
        => IF FullTiers = {} THEN planner.out = None
           ELSE LET n == CHOOSE x \in FullTiers : \A y \in FullTiers : x <= y
                IN  /\ IsSome(planner.out)
                    /\ ScanSet(Unwrap(planner.out)) = {planner.sstables[i].id : i \in InTier(n)}
                    /\ Len(Unwrap(planner.out)) = Cardinality(InTier(n))

\* C20: TTL lazy expiry on read. For a key stored with a TTL, a get(k) called
\* when the wall clock is at or after the time of the store plus the TTL
\* returns None, the value being still in the MemTable or not.
C20_TtlLazyExpiry ==
    (ttl.on /\ ttl.op = "get" /\ IsSome(ttl.stored[ttl.key]))
        => LET s == Unwrap(ttl.stored[ttl.key])
           IN  ttl.at >= s.at + s.ttl_ms => ttl.out = None

\* The bytes an entry accounts for: key.len() + value.len() for a live entry,
\* key.len() for a tombstone.
Contribution(k, o) == Len(k) + (IF IsSome(o) THEN Len(Unwrap(o)) ELSE 0)
RECURSIVE SumContributions(_, _)
SumContributions(m, S) ==
    IF S = {} THEN 0
    ELSE LET k == CHOOSE x \in S : TRUE
         IN  Contribution(k, m[k]) + SumContributions(m, S \ {k})

\* C21: MemTable size accounting. After any sequence of insert, delete and
\* clear, size() is the sum of the contributions of the current entries, and
\* right after a clear the size is 0 and the map is empty.
C21_SizeAccounting ==
    /\ memtable.size_bytes = SumContributions(memtable.entries, DOMAIN memtable.entries)
    /\ last.op = "clear" => (memtable.size_bytes = 0 /\ DOMAIN memtable.entries = {})

\* A live value was replaced by a shorter one beside a tombstone.
C21_Witness ==
    /\ last.op = "insert" /\ last.key = <<1, 2>> /\ last.value = <<1>>
    /\ ops = MaxMtOps
    /\ memtable.size_bytes = 4
    /\ MemTable_contains_key(memtable, <<1>>) /\ memtable.entries[<<1>>] = None

\* C22: an engine is never open with an invalid configuration: open with
\* memtable_max_size = 0 fails with a Config error, so every open engine has
\* a flush threshold of at least 1.
C22_InvalidConfigRejected == up => memtable_max_size >= 1

\* C23 as stated: after a truncate that returned Ok, recover gives an empty
\* MemTable and the records appended from then on are recovered as on a new
\* log; a process that terminates inside truncate leaves the file with its
\* previous contents or empty.
C23_TruncateAtomic ==
    wal.on =>
        /\ (wal.op = "truncate" /\ wal.ok) => recover(wal_file) = MemTable_new
        /\ (wal.gen > 0 /\ wal.all_ok) => recover(wal_file) = wal.applied
        /\ wal.op = "truncate_crash" => wal_file \in {wal.pre, << >>}

\* C23, amended: as above, but a process that terminates inside truncate
\* leaves the file empty or with its previous contents followed by some of
\* the bytes the BufWriter still held from an append that failed; when the
\* BufWriter held none, that is the previous contents or empty.
C23_TruncateFlushesThenEmpties ==
    wal.on =>
        /\ (wal.op = "truncate" /\ wal.ok) => recover(wal_file) = MemTable_new
        /\ (wal.gen > 0 /\ wal.all_ok) => recover(wal_file) = wal.applied
        /\ wal.op = "truncate_crash"
               => \/ wal_file = << >>
                  \/ \E n \in 0..Len(wal.pre_buf) :
                         wal_file = wal.pre \o SubSeq(wal.pre_buf, 1, n)

\* A record appended to a log that was truncated while its BufWriter held
\* the rest of a failed append.
C23_Witness ==
    /\ wal.on /\ wal.gen = 1 /\ wal.all_ok /\ wal.op = "put"
    /\ wal.pre_buf # << >>
    /\ MemTable_len(wal.applied) = 1
    /\ wal_file # << >>

\* C28: WAL replay round trip. After append_put / append_delete calls on a
\* new log that all returned Ok, recover returns the MemTable that the same
\* sequence of insert / delete builds from an empty one: the same keys,
\* values, tombstones and size.
C28_ReplayRoundTrip ==
    (wal.on /\ wal.gen = 0 /\ wal.all_ok /\ wal.op \in {"open", "put", "delete"})
        => recover(wal_file) = wal.applied

\* Three appends: a put, its overwrite or delete, and a tombstone in the result.
C28_Witness ==
    /\ wal.on /\ wal.gen = 0 /\ wal.all_ok /\ wal.n = MaxWalOps
    /\ \E k \in Keys : MemTable_contains_key(wal.applied, k) /\ wal.applied.entries[k] = None
    /\ \E k \in Keys : MemTable_get(wal.applied, k) = Some(<<1>>)

\* C24: MemTable lookup. get(k) is Some(v) exactly when the latest call on k
\* since the last clear was insert(k, v), and None both for a key never
\* inserted and for a tombstoned one; contains_key(k) is true exactly when k
\* was inserted or deleted since the last clear, tombstones included.
C24_LookupSemantics ==
    (~up /\ LibIdle) =>
        \A k \in DOMAIN ref :
            /\ MemTable_get(memtable, k)
                   = (IF ref[k].st = "put" THEN Some(ref[k].val) ELSE None)
            /\ MemTable_contains_key(memtable, k) = (ref[k].st # "never")

\* A tombstone, a live empty value and a key never inserted side by side.
C24_Witness ==
    /\ ~up /\ LibIdle /\ DOMAIN ref = MtKeys
    /\ ref[<<1>>].st = "delete"
    /\ MemTable_contains_key(memtable, <<1>>) /\ MemTable_get(memtable, <<1>>) = None
    /\ ref[<< >>] = [st |-> "put", val |-> << >>]
    /\ MemTable_get(memtable, << >>) = Some(<< >>)
    /\ ~MemTable_contains_key(memtable, <<1, 2>>)

\* C25: TtlIndex expiry. For every key and clock value: with no entry,
\* is_expired is false and remaining_ttl is None; with expiration e,
\* is_expired is (now >= e) and remaining_ttl is Some(0) when now >= e and
\* Some(e - now), positive, otherwise. The entry of a key is the expiration of
\* the latest set_ttl / set_expiration, and none after remove_ttl.
C25_ExpirySemantics ==
    ttl.on =>
        \A k \in Keys :
            /\ get_expiration(ttl.expirations, k) = ttl.latest[k]
            /\ ttl.latest[k] = None
                   => /\ ~is_expired(ttl.expirations, k, ttl.now)
                      /\ remaining_ttl(ttl.expirations, k, ttl.now) = None
            /\ IsSome(ttl.latest[k])
                   => LET e == Unwrap(ttl.latest[k])
                      IN  /\ is_expired(ttl.expirations, k, ttl.now) = (ttl.now >= e)
                          /\ ttl.now >= e => remaining_ttl(ttl.expirations, k, ttl.now) = Some(0)
                          /\ ttl.now < e
                                 => /\ remaining_ttl(ttl.expirations, k, ttl.now) = Some(e - ttl.now)
                                    /\ e - ttl.now > 0

\* A TTL replaced by a later one that expires exactly now, beside a key whose
\* TTL was removed.
C25_Witness ==
    /\ ttl.on /\ ttl.now = 1
    /\ ttl.latest[<<1>>] = Some(1) /\ is_expired(ttl.expirations, <<1>>, ttl.now)
    /\ ttl.op = "remove_ttl" /\ ttl.key = <<2>> /\ ttl.n = MaxTtlOps

\* C30: purge_expired removes exactly the entries whose expiration is <= now
\* and returns how many; the others keep key and timestamp; right after, at
\* the same clock value, collect_expired is empty and len() is smaller by the
\* count returned.
C30_PurgeExpired ==
    (ttl.on /\ ttl.op = "purge_expired") =>
        LET gone == {k \in DOMAIN ttl.before : ttl.before[k] <= ttl.now}
        IN  /\ DOMAIN ttl.expirations = (DOMAIN ttl.before) \ gone
            /\ \A k \in DOMAIN ttl.expirations : ttl.expirations[k] = ttl.before[k]
            /\ ttl.out = Cardinality(gone)
            /\ collect_expired(ttl.expirations, ttl.now) = << >>
            /\ TtlIndex_len(ttl.expirations) = TtlIndex_len(ttl.before) - ttl.out

\* A purge that removed the entry expiring at this very millisecond and kept
\* a later one.
C30_Witness ==
    /\ ttl.on /\ ttl.op = "purge_expired" /\ ttl.out = 1
    /\ DOMAIN ttl.before = Keys
    /\ \E k \in Keys : ttl.before[k] = ttl.now
    /\ \E k \in Keys : k \in DOMAIN ttl.expirations /\ ttl.expirations[k] > ttl.now

\* C26: flush threshold. With memtable_max_size >= 1, after every put or
\* delete that returns Ok, memtable_size() < memtable_max_size; a call runs
\* the flush exactly when its insert or tombstone brings the size to the
\* threshold or above, a delete as a put does, and the flush is over when
\* the call returns.
C26_FlushThreshold ==
    [][(IsCall /\ ValidConfig)
          => /\ last'.flushed => MidOf(last').size_bytes >= memtable_max_size
             /\ last'.ok
                    => /\ memtable'.size_bytes < memtable_max_size
                       /\ last'.flushed = (MidOf(last').size_bytes >= memtable_max_size)
                       /\ last'.flushed => (memtable' = MemTable_new /\ flush_count' = flush_count + 1)]_vars

\* A delete whose tombstone bytes reached the threshold and flushed.
C26_Witness ==
    /\ up /\ ValidConfig /\ memtable_max_size >= 2
    /\ last.op = "delete" /\ last.ok /\ last.flushed
    /\ memtable.size_bytes = 0

ReadOps == {"get", "scan", "len", "is_empty", "memtable_size"}

\* C27: reads have no effect. A call of get, scan, len, is_empty or
\* memtable_size leaves the MemTable (entries and size_bytes), the WAL file
\* and the flush counter as they were, writes nothing through the log writer
\* and runs no flush.
C27_ReadsHaveNoEffect ==
    [][last'.op \in ReadOps
          => /\ memtable' = memtable
             /\ wal_file' = wal_file /\ wal_buf' = wal_buf
             /\ flush_count' = flush_count
             /\ sst_files' = sst_files /\ sst_made' = sst_made]_vars

\* A get that found a value in an engine whose log holds records.
C27_Witness ==
    /\ up /\ last.op = "get" /\ last.value = Some(<<1>>)
    /\ memtable.size_bytes >= 2 /\ wal_file # << >>

\* The upper bound of tier t: 4 MiB * size_ratio^t.
UpperBound(t) == TierBase * (planner.size_ratio ^ t)

\* C29: tier assignment. tier_for_size(size) is the least t >= 0 with
\* size <= 4 MiB * size_ratio^t: the upper bounds are inclusive (4 MiB is
\* tier 0; 40 MiB is tier 1 with ratio 10), size 0 is tier 0, and a larger
\* size never gets a lower tier.
C29_TierAssignment ==
    (planner.on /\ planner.done) =>
        /\ \A i \in 1..2 :
               LET size == planner.sizes[i]
                   t == planner.tiers[i]
               IN  /\ t >= 0
                   /\ size <= UpperBound(t)
                   /\ \A u \in 0..(t - 1) : size > UpperBound(u)
                   /\ size = 0 => t = 0
                   /\ size = TierBase => t = 0
                   /\ (size = 10 * TierBase /\ planner.size_ratio = 10) => t = 1
        /\ planner.sizes[1] <= planner.sizes[2] => planner.tiers[1] <= planner.tiers[2]

\* 4 MiB exactly beside 40 MiB exactly, ratio 10.
C29_Witness ==
    /\ planner.on /\ planner.done /\ planner.size_ratio = 10
    /\ planner.sizes = <<TierBase, 10 * TierBase>>
    /\ planner.tiers = <<0, 1>>

\* C31: the WAL and the MemTable agree at every quiescent point. After open
\* and after every put or delete, returned Ok or Err, replaying the WAL file
\* as it is gives exactly the MemTable of the engine: keys, values,
\* tombstones and size_bytes.
C31_WalMatchesMemTable == (up /\ ValidConfig) => recover(wal_file) = memtable

\* C32 as stated: len() is the number of pairs scan() returns and is_empty()
\* is true exactly when scan() is empty, after any puts and deletes, the
\* delete of a key never put included.
C32_LenCountsLiveKeys ==
    up => /\ Oblivion_len = Len(Oblivion_scan)
          /\ Oblivion_is_empty = (Oblivion_scan = << >>)

\* The keys the MemTable holds as tombstones.
Tombstones == {k \in DOMAIN memtable.entries : memtable.entries[k] = None}

\* C32, amended: len() counts the entries of the MemTable, tombstones
\* included: it is the number of pairs scan() returns plus the number of
\* tombstoned keys, and is_empty() is true exactly when there is neither a
\* pair nor a tombstone.
C32_LenCountsEntries ==
    up => /\ Oblivion_len = Len(Oblivion_scan) + Cardinality(Tombstones)
          /\ Oblivion_is_empty = (Oblivion_scan = << >> /\ Tombstones = {})

\* A key that was deleted without ever being put, beside a live key.
C32_Witness ==
    /\ up /\ Oblivion_len = 2 /\ Len(Oblivion_scan) = 1 /\ ~Oblivion_is_empty
    /\ ref[<<2>>].st = "delete" /\ <<2>> \in Tombstones
    /\ last.op = "delete" /\ last.ok

\* C33: an empty value is a live value. Once put(k, empty) has returned Ok
\* and is the latest call on k, get(k) is Some(empty) and scan holds
\* (k, empty), before and after a crash and reopen; the replay of the log
\* tells a put of the empty value from a delete by the op_type byte.
C33_EmptyValueIsLive ==
    /\ (up /\ ValidConfig)
           => \A k \in Keys :
                  (ref[k] = [st |-> "put", val |-> << >>] /\ k \notin dirty)
                      => /\ Oblivion_get(k) = Some(<< >>)
                         /\ <<k, << >>>> \in ScanSet(Oblivion_scan)
    /\ \A k \in Keys :
           /\ recover(encode_put(k, << >>)) = MemTable_insert(MemTable_new, k, << >>)
           /\ recover(encode_delete(k)) = MemTable_delete(MemTable_new, k)

\* C34: recovery is total. Whatever the bytes of the file, recover indexes no
\* byte outside it (so it does not panic and returns Ok), and the MemTable
\* it returns is the replay of the well-formed records that come before the
\* first piece that is not one, a record being well-formed when its CRC32
\* covers its bytes from the op_type up to the checksum.
C34_RecoveryTotal ==
    (replay.on /\ replay.done)
        => LET r == RecoverLoop(replay.data, 0, MemTable_new)
           IN  /\ r.hi <= Len(replay.data)
               /\ r.good <= Len(replay.data)
               /\ replay.memtable = r.memtable
               /\ r.memtable = ApplyInOrder(replay.segs, GoodLen(replay.segs), MemTable_new)

\* A file that ends in a record head announcing more key bytes than follow,
\* after a well-formed record, has been recovered.
C34_Witness ==
    /\ replay.on /\ replay.done
    /\ Len(replay.segs) = 2
    /\ replay.segs[1].kind = "delete"
    /\ \/ replay.segs[2].kind = "huge_len"
       \/ replay.segs[2].kind = "torn" /\ replay.segs[2].cut = 5
    /\ MemTable_len(replay.memtable) = 1

\* C35: opening is idempotent and leaves the log alone. An open does not
\* change the bytes of the WAL file and yields the replay of that file; when
\* the process then terminates with no write in between, the file is still
\* the same and its replay, which is what the next open yields, is the
\* MemTable the first open produced.
C35_OpenIdempotent ==
    [][ /\ (~up /\ up') => /\ wal_file' = wal_file
                           /\ memtable' = recover(wal_file)
        /\ (up /\ ~up' /\ last.op = "open") => /\ wal_file' = wal_file
                                               /\ recover(wal_file') = memtable ]_vars

\* The engine was opened a second time on a log that holds a live key and a
\* torn tail, and terminated again before any write of that session.
C35_Witness ==
    /\ ~up /\ crashes = 2 /\ last.op = "crash"
    /\ sess.acked = {} /\ ~sess.faulted /\ sess.torn
    /\ MemTable_len(recover(wal_file)) >= 1

\* C36: tier_for_size terminates. For every table size and every size_ratio
\* that SizeTieredCompaction::new accepts, 0 and 1 included, a call of
\* tier_for_size comes to an end.
C36_TierForSizeTerminates == <>(planner.pc \in {"done", "panicked"})

\* C37: the Bloom filter does not panic. For every filter that with_params
\* builds, num_bits = 0 included, no call of insert panics: every bit index
\* is below num_bits and its byte lies inside the bit array.
C37_BloomNeverPanics == bloom.on => ~bloom.panicked

\* C38: set_ttl does not wrap. For every u64 ttl_ms, set_ttl(key, ttl_ms)
\* returns and records the expiration now + ttl_ms, so that is_expired(key)
\* is false as long as fewer than ttl_ms milliseconds have passed since the
\* call.
C38_SetTtlNoWrap ==
    ttl.on
        => /\ ~ttl.panicked
           /\ \A k \in Keys :
                  IsSome(ttl.latest[k])
                      => LET c == Unwrap(ttl.latest[k])
                         IN  /\ get_expiration(ttl.expirations, k) = Some(c.at + c.ttl_ms)
                             /\ (ttl.now - c.at < c.ttl_ms)
                                    => ~is_expired(ttl.expirations, k, ttl.now)

\* C39: the wrapper is deadlock-free. Under fair lock scheduling every call
\* of every thread returns, for any mix of put, get and with_metrics, whose
\* callback runs while the read lock is held.
C39_EveryCallReturns == <>(\A t \in Threads : conc.th[t].pc = "done")

====
